---- MODULE Spec2Model ----
(***************************************************************************)
(* Model of the access ledger, the funnel state machine, the conversion    *)
(* intake and the broadcast dialogues of the pocket-saas bots.             *)
(*                                                                         *)
(* Every handler is a cooperative task: it runs atomically between two     *)
(* awaits, and every store read, store commit and transport call is an     *)
(* await.  A task is a record in procs with the handler it runs (op), its  *)
(* position (pc) and its local variables.                                  *)
(***************************************************************************)
EXTENDS Integers, Sequences, FiniteSets, TLC

\* ------------------------------------------------------------------------
\* Universe and bounds
\* ------------------------------------------------------------------------

Tenants == {1, 2}
Users == {1, 2}
Procs == {1, 2}

\* number of handler invocations in one behaviour
MaxOps == 3
\* number of rows of the events table
MaxEvents == 2

\* click_id values a conversion notice can carry
ClickIds == {"1", "2", "01", "x"}
NoClick == "None"
Amounts == {1, 2}
Kinds == {"reg", "ftd", "rd"}

\* texts.py LANGS (two of the seven codes)
LANGS == {"en", "ru"}
NoLang == "None"
lang_default == "ru"

Pairs == Tenants \X Users

\* str(user_id)
Str(u) == IF u = 1 THEN "1" ELSE "2"

\* int(click_id): 0 stands for ValueError
ToInt(c) == CASE c = "1" -> 1
              [] c = "01" -> 1
              [] c = "2" -> 2
              [] OTHER -> 0

\* ------------------------------------------------------------------------
\* State
\* ------------------------------------------------------------------------

VARIABLES
    tenants,    \* tenants table: id -> row
    access,     \* user_accesses table: <<tenant_id, user_id>> -> row
    events,     \* events table, in insertion order
    langs,      \* user_langs table: <<tenant_id, user_id>> -> lang
    access_welcome_shown,   \* process-local set of <<tenant_id, user_id>>
    procs,      \* running handlers
    ops,        \* handler invocations started so far
    shown,      \* how often the interactive path presented the
                \* access-granted screen to a pair since its marker was
                \* last discarded
    had,        \* pairs for which a reg / deposit Event has existed
    menu_seen,  \* pairs whose chat holds a main menu (the menu:signal button)
    broadcast_state,    \* child runner: the operator's entry, a dict reference
    bc_dicts,           \* the dict objects broadcast_state entries refer to
    bc_handlers,        \* handle_text / handle_media calls past their lookup
    kb_shown,           \* campaign keyboards in the operator's chat (child)
    ga_broadcast_state, \* parent bot: the global admin's entry
    ga_lists,           \* the list objects "messages" entries refer to
    ga_kb_shown,        \* campaign keyboards in the global admin's chat
    tasks,              \* campaign sends created and not yet started
    dispatch,           \* the last campaign sent
    manager_tasks,      \* ChildrenManager.tasks: tenant id -> task (0: no entry)
    child_bots,         \* the run_child_bot tasks the manager has created
    runner,             \* run_children_loop: where the loop is, what tick read
    entries,            \* the in-memory dialogue entries of every sender
    last_effect         \* the last privileged operation carried out (history)

ledgerVars == <<tenants, access, events, langs, access_welcome_shown, procs,
                ops, shown, had, menu_seen>>
bcVars == <<broadcast_state, bc_dicts, bc_handlers, kb_shown,
            ga_broadcast_state, ga_lists, ga_kb_shown, tasks, dispatch>>
svVars == <<manager_tasks, child_bots, runner>>
senderVars == <<entries, last_effect>>
vars == <<ledgerVars, bcVars, svVars, senderVars>>

\* the tables and the handlers of the ledger, without the step counter
rowVars == <<tenants, access, events, langs, access_welcome_shown, procs,
             shown, had, menu_seen>>

\* what the campaign dialogues leave alone
storeVars == <<tenants, access, events, langs, access_welcome_shown, procs,
               shown, had, menu_seen, svVars, senderVars>>

NoRow == [exists |-> FALSE, is_registered |-> FALSE, has_deposit |-> FALSE,
          click_id |-> NoClick, total_deposits |-> 0]

\* UserAccess(tenant_id, user_id, click_id): the column defaults of models.py
UserAccess(c) == [exists |-> TRUE, is_registered |-> FALSE, has_deposit |-> FALSE,
                  click_id |-> c, total_deposits |-> 0]

Event(t, u, c, k, a) == [tenant_id |-> t, user_id |-> u, click_id |-> c,
                         kind |-> k, amount |-> a]

Idle == [op |-> "idle", pc |-> "idle", t |-> 0, u |-> 0,
         click |-> NoClick, kind |-> "", amt |-> 0, flag |-> "",
         found |-> FALSE, sreg |-> FALSE, sdep |-> FALSE, stot |-> 0,
         rreg |-> FALSE, rdep |-> FALSE,
         lreg |-> FALSE, ldep |-> FALSE, lclick |-> NoClick,
         csub |-> FALSE, cdep |-> FALSE, cchan |-> FALSE,
         lang |-> NoLang, lookup |-> "", subok |-> FALSE, ph |-> 0, full |-> FALSE,
         out |-> <<>>, status |-> "", sent |-> "",
         pre_reg |-> FALSE, pre_dep |-> FALSE, pre_ev |-> 0, pre_acc |-> <<>>,
         slang |-> NoLang, marked |-> FALSE, token |-> "", ltoken |-> ""]

\* a handler invocation starts: its arguments, and (history only, for the
\* handlers whose properties refer to it) what the store held at that moment
Begin(op, pc, t, u) ==
    [Idle EXCEPT !.op = op, !.pc = pc, !.t = t, !.u = u,
                 !.pre_reg = IF op = "eff" /\ u \in Users
                             THEN access[<<t, u>>].is_registered ELSE FALSE,
                 !.pre_dep = IF op = "eff" /\ u \in Users
                             THEN access[<<t, u>>].has_deposit ELSE FALSE,
                 !.pre_ev = IF op = "pb" THEN Len(events) ELSE 0,
                 !.pre_acc = IF op = "pb" THEN access ELSE <<>>]

\* ------------------------------------------------------------------------
\* Store helpers
\* ------------------------------------------------------------------------

\* Event rows of (tenant, user) whose kind is in kinds
EventsOf(t, u, kinds) ==
    {i \in 1..Len(events) : /\ events[i].tenant_id = t
                            /\ events[i].user_id = u
                            /\ events[i].kind \in kinds}

\* the UNIQUE(click_id) index: some other row already holds the value
ClickTaken(acc, pair, c) ==
    /\ c # NoClick
    /\ \E q \in Pairs : q # pair /\ acc[q].exists /\ acc[q].click_id = c

\* ------------------------------------------------------------------------
\* _get_or_create_access
\* ------------------------------------------------------------------------

\* the task goes on after _get_or_create_access returned the row ua
AfterGoc(pr, ua) ==
    LET r == [pr EXCEPT !.found = TRUE, !.sreg = ua.is_registered,
                        !.sdep = ua.has_deposit, !.stot = ua.total_deposits]
    IN CASE pr.op = "goc" -> [r EXCEPT !.pc = "done", !.status = "ok"]
         [] pr.op = "start" /\ pr.ph = 0 -> [r EXCEPT !.pc = "start_lang"]
         [] OTHER -> [r EXCEPT !.pc = "ev_read"]

\* the handler dies with the exception
Raise(pr) == [pr EXCEPT !.pc = "done", !.status = "raised"]

\* the row was found: repair a missing click_id, return the row
GocFound(p, pair) ==
    LET pr == procs[p]
        ua == access[pair]
    IN IF ua.click_id = NoClick
       THEN IF ClickTaken(access, pair, Str(pr.u))
            THEN /\ procs' = [procs EXCEPT ![p] = Raise(pr)]
                 /\ UNCHANGED access
            ELSE /\ access' = [access EXCEPT ![pair].click_id = Str(pr.u)]
                 /\ procs' = [procs EXCEPT ![p] = AfterGoc(pr, access'[pair])]
       ELSE /\ procs' = [procs EXCEPT ![p] = AfterGoc(pr, ua)]
            /\ UNCHANGED access

\* first select
GocRead(p) ==
    /\ procs[p].pc = "goc_read"
    /\ LET pair == <<procs[p].t, procs[p].u>>
       IN IF access[pair].exists
          THEN GocFound(p, pair)
          ELSE /\ procs' = [procs EXCEPT ![p].pc = "goc_commit"]
               /\ UNCHANGED access
    /\ UNCHANGED <<tenants, events, langs, access_welcome_shown, ops, shown, had, menu_seen, bcVars, svVars, senderVars>>

\* the INSERT meets UNIQUE(tenant_id, user_id) and UNIQUE(click_id)
InsertConflict(acc, pair, c) == acc[pair].exists \/ ClickTaken(acc, pair, c)

\* session.add(ua); commit
GocCommit(p) ==
    /\ procs[p].pc = "goc_commit"
    /\ LET pr == procs[p]
           pair == <<pr.t, pr.u>>
       IN IF InsertConflict(access, pair, Str(pr.u))
          THEN /\ procs' = [procs EXCEPT ![p].pc = "goc_reread"]
               /\ UNCHANGED access
          ELSE /\ access' = [access EXCEPT ![pair] = UserAccess(Str(pr.u))]
               /\ procs' = [procs EXCEPT ![p] = AfterGoc(pr, access'[pair])]
    /\ UNCHANGED <<tenants, events, langs, access_welcome_shown, ops, shown, had, menu_seen, bcVars, svVars, senderVars>>

\* except IntegrityError: rollback, select again, raise when there is no row
GocReread(p) ==
    /\ procs[p].pc = "goc_reread"
    /\ LET pair == <<procs[p].t, procs[p].u>>
       IN IF access[pair].exists
          THEN GocFound(p, pair)
          ELSE /\ procs' = [procs EXCEPT ![p] = Raise(procs[p])]
               /\ UNCHANGED access
    /\ UNCHANGED <<tenants, events, langs, access_welcome_shown, ops, shown, had, menu_seen, bcVars, svVars, senderVars>>

\* a caller invokes _get_or_create_access(tenant_id, user_id, username)
GocStart(p, t, u) ==
    /\ procs[p].op = "idle"
    /\ procs' = [procs EXCEPT ![p] = Begin("goc", "goc_read", t, u)]
    /\ ops' = ops + 1
    /\ UNCHANGED <<tenants, access, events, langs, access_welcome_shown, shown, had, menu_seen, bcVars, svVars, senderVars>>

\* the handler is over
Return(p) ==
    /\ procs[p].pc = "done"
    /\ procs' = [procs EXCEPT ![p] = Idle]
    /\ UNCHANGED <<tenants, access, events, langs, access_welcome_shown, ops, shown, had, menu_seen, bcVars, svVars, senderVars>>

\* ------------------------------------------------------------------------
\* _get_access_flags_from_events, _get_effective_access
\* ------------------------------------------------------------------------

\* the deposit count restricted to first deposits
get_access_flags_ftd_only(t, u) ==
    <<EventsOf(t, u, {"reg"}) # {}, EventsOf(t, u, {"ftd"}) # {}>>

get_access_flags_from_events(t, u) ==
    <<EventsOf(t, u, {"reg"}) # {}, EventsOf(t, u, {"ftd", "rd"}) # {}>>

\* the task goes on after _get_effective_access returned (ua, reg, dep)
AfterEff(pr) ==
    CASE pr.op = "eff" -> [pr EXCEPT !.pc = "done", !.status = "ok"]
      [] pr.op = "adv" -> [pr EXCEPT !.pc = IF pr.csub THEN "adv_sub" ELSE "adv_decide"]
      [] OTHER -> [pr EXCEPT !.pc = "menu_send"]

\* the two counts, the OR with the flags of ua, the test for a write
EvRead(p) ==
    /\ procs[p].pc = "ev_read"
    /\ LET pr == procs[p]
           ev == get_access_flags_from_events(pr.t, pr.u)
           is_registered == pr.sreg \/ ev[1]
           has_deposit == pr.sdep \/ ev[2]
           r == [pr EXCEPT !.rreg = is_registered, !.rdep = has_deposit]
       IN procs' = [procs EXCEPT ![p] =
                      IF is_registered # pr.sreg \/ has_deposit # pr.sdep
                      THEN [r EXCEPT !.pc = "rec_read"]
                      ELSE AfterEff(r)]
    /\ UNCHANGED <<tenants, access, events, langs, access_welcome_shown, ops, shown, had, menu_seen, bcVars, svVars, senderVars>>

\* the reconciliation session loads the row
RecRead(p) ==
    /\ procs[p].pc = "rec_read"
    /\ LET pr == procs[p]
           ua == access[<<pr.t, pr.u>>]
       IN procs' = [procs EXCEPT ![p] =
                      IF ua.exists
                      THEN [pr EXCEPT !.pc = "rec_commit",
                                      !.lreg = ua.is_registered, !.ldep = ua.has_deposit]
                      ELSE AfterEff(pr)]
    /\ UNCHANGED <<tenants, access, events, langs, access_welcome_shown, ops, shown, had, menu_seen, bcVars, svVars, senderVars>>

\* commit: the UPDATE sets the columns whose assigned value differs from the
\* loaded one; it fails (StaleDataError) when the row is gone
RecCommit(p) ==
    /\ procs[p].pc = "rec_commit"
    /\ LET pr == procs[p]
           pair == <<pr.t, pr.u>>
           dirty == pr.lreg # pr.rreg \/ pr.ldep # pr.rdep
       IN IF dirty /\ ~access[pair].exists
          THEN /\ procs' = [procs EXCEPT ![p] = Raise(pr)]
               /\ UNCHANGED access
          ELSE /\ access' = [access EXCEPT
                    ![pair].is_registered = IF pr.lreg # pr.rreg THEN pr.rreg ELSE @,
                    ![pair].has_deposit = IF pr.ldep # pr.rdep THEN pr.rdep ELSE @]
               /\ procs' = [procs EXCEPT ![p] = AfterEff(pr)]
    /\ UNCHANGED <<tenants, events, langs, access_welcome_shown, ops, shown, had, menu_seen, bcVars, svVars, senderVars>>

\* a caller invokes _get_effective_access(tenant_id, user_id)
EffStart(p, t, u) ==
    /\ procs[p].op = "idle"
    /\ procs' = [procs EXCEPT ![p] = Begin("eff", "goc_read", t, u)]
    /\ ops' = ops + 1
    /\ UNCHANGED <<tenants, access, events, langs, access_welcome_shown, shown, had, menu_seen, bcVars, svVars, senderVars>>

\* ------------------------------------------------------------------------
\* Conversion intake: postback_reg, postback_ftd, postback_rd
\* ------------------------------------------------------------------------

\* getattr(tenant, "deposit_required", True): Tenant has no such column
deposit_required(tenantRow) == TRUE

\* an external system calls /pb/tn{t}/{kind}?click_id=c&sumdep=a
PbStart(p, t, k, c, a) ==
    /\ procs[p].op = "idle"
    /\ Len(events) + Cardinality({q \in Procs : procs[q].op = "pb"}) < MaxEvents
    /\ procs' = [procs EXCEPT ![p] =
                   [Begin("pb", "pb_tenant", t, 0) EXCEPT !.kind = k, !.click = c,
                                                          !.amt = IF k = "reg" THEN 0 ELSE a]]
    /\ ops' = ops + 1
    /\ UNCHANGED <<tenants, access, events, langs, access_welcome_shown, shown, had, menu_seen, bcVars, svVars, senderVars>>

\* _get_tenant_by_code
PbTenant(p) ==
    /\ procs[p].pc = "pb_tenant"
    /\ LET pr == procs[p]
       IN procs' = [procs EXCEPT ![p] =
                      IF tenants[pr.t].exists
                      THEN [pr EXCEPT !.pc = "pb_resolve",
                                      !.cdep = tenants[pr.t].check_deposit]
                      ELSE [pr EXCEPT !.pc = "done", !.status = "error"]]
    /\ UNCHANGED <<tenants, access, events, langs, access_welcome_shown, ops, shown, had, menu_seen, bcVars, svVars, senderVars>>

\* whether the database rejects a row whose tenant is gone: SQLite does not
\* unless PRAGMA foreign_keys is set, which the engine is created without
\* (db.py); other databases behind DATABASE_URL do
ForeignKeys(t) == IF tenants[t].exists THEN {FALSE} ELSE BOOLEAN

\* the user a click_id resolves to: by int(click_id), then by stored click_id;
\* 0 when there is no such row
ResolveClick(acc, t, c) ==
    LET tg == ToInt(c)
        byClick == {u \in Users : acc[<<t, u>>].exists /\ acc[<<t, u>>].click_id = c}
    IN IF tg # 0 /\ acc[<<t, tg>>].exists THEN tg
       ELSE IF byClick # {} THEN CHOOSE u \in byClick : TRUE
       ELSE 0

\* _get_or_create_user_access_for_click: the two selects
PbResolve(p) ==
    /\ procs[p].pc = "pb_resolve"
    /\ LET pr == procs[p]
           u == ResolveClick(access, pr.t, pr.click)
           tg == ToInt(pr.click)
       IN procs' = [procs EXCEPT ![p] =
                      IF u # 0
                      THEN [pr EXCEPT !.pc = "pb_resolve_commit", !.flag = "update", !.u = u,
                                      !.lclick = access[<<pr.t, u>>].click_id]
                      ELSE IF tg # 0
                      THEN [pr EXCEPT !.pc = "pb_resolve_commit", !.flag = "insert", !.u = tg]
                      ELSE [pr EXCEPT !.pc = "pb_resolve_commit", !.flag = "none"]]
    /\ UNCHANGED <<tenants, access, events, langs, access_welcome_shown, ops, shown, had, menu_seen, bcVars, svVars, senderVars>>

\* _get_or_create_user_access_for_click: commit and refresh; an exception
\* here is not caught by the handler.  No row: the handler returns ok.
PbResolveCommit(p) ==
    /\ procs[p].pc = "pb_resolve_commit"
    /\ LET pr == procs[p]
           pair == <<pr.t, pr.u>>
       IN CASE pr.flag = "none" ->
                 /\ procs' = [procs EXCEPT ![p] = [pr EXCEPT !.pc = "done", !.status = "ok"]]
                 /\ UNCHANGED access
            [] pr.flag = "insert" ->
                 \E fk \in ForeignKeys(pr.t) :
                   IF fk \/ InsertConflict(access, pair, pr.click)
                   THEN /\ procs' = [procs EXCEPT ![p] = Raise(pr)]
                        /\ UNCHANGED access
                   ELSE /\ access' = [access EXCEPT ![pair] = UserAccess(pr.click)]
                        /\ procs' = [procs EXCEPT ![p].pc = "pb_read"]
            [] OTHER ->
                 IF ~access[pair].exists
                    \/ (pr.lclick # pr.click /\ ClickTaken(access, pair, pr.click))
                 THEN /\ procs' = [procs EXCEPT ![p] = Raise(pr)]
                      /\ UNCHANGED access
                 ELSE /\ access' = [access EXCEPT ![pair].click_id =
                                      IF pr.lclick # pr.click THEN pr.click ELSE @]
                      /\ procs' = [procs EXCEPT ![p].pc = "pb_read"]
    /\ UNCHANGED <<tenants, events, langs, access_welcome_shown, ops, shown, had, menu_seen, bcVars, svVars, senderVars>>

\* the handler's own session loads the row again
PbRead(p) ==
    /\ procs[p].pc = "pb_read"
    /\ LET pr == procs[p]
           ua == access[<<pr.t, pr.u>>]
       IN procs' = [procs EXCEPT ![p] =
                      [pr EXCEPT !.pc = "pb_commit", !.found = ua.exists,
                                 !.lreg = ua.is_registered, !.ldep = ua.has_deposit,
                                 !.stot = ua.total_deposits, !.lclick = ua.click_id]]
    /\ UNCHANGED <<tenants, access, events, langs, access_welcome_shown, ops, shown, had, menu_seen, bcVars, svVars, senderVars>>

\* the columns the handler of kind k assigns to the loaded row
PbAssign(k, ua, pr) ==
    CASE k = "reg" -> [ua EXCEPT !.is_registered = TRUE, !.click_id = pr.click]
      [] k = "ftd" -> [ua EXCEPT !.has_deposit = TRUE, !.click_id = pr.click,
                                 !.total_deposits = pr.stot + pr.amt]
      [] OTHER -> [ua EXCEPT !.click_id = pr.click,
                             !.total_deposits = pr.stot + pr.amt]

\* the handler goes on to the notification whatever the commit did
pb_after_commit_notifies(pr, failed) == [pr EXCEPT !.pc = "pb_notify"]

\* try: await session.commit() / except SQLAlchemyError: return db_error
pb_after_commit(pr, failed) ==
    IF failed THEN [pr EXCEPT !.pc = "done", !.status = "error"]
    ELSE [pr EXCEPT !.pc = "pb_notify"]

\* commit of the flag update and the Event: the UPDATE sets the columns
\* whose assigned value differs from the loaded one; SQLAlchemyError (the
\* row is gone, the click_id is taken, the Event's tenant is gone and
\* foreign keys are enforced) -> db_error
PbCommit(p) ==
    /\ procs[p].pc = "pb_commit"
    /\ LET pr == procs[p]
           pair == <<pr.t, pr.u>>
           loaded == [exists |-> TRUE, is_registered |-> pr.lreg, has_deposit |-> pr.ldep,
                      click_id |-> pr.lclick, total_deposits |-> pr.stot]
           assigned == PbAssign(pr.kind, loaded, pr)
           dirty == assigned # loaded
           fails == /\ pr.found
                    /\ dirty
                    /\ \/ ~access[pair].exists
                       \/ (pr.lclick # pr.click /\ ClickTaken(access, pair, pr.click))
       IN \E fk \in ForeignKeys(pr.t) :
          IF fails \/ fk
          THEN /\ procs' = [procs EXCEPT ![p] = pb_after_commit(pr, TRUE)]
               /\ UNCHANGED <<access, events, had>>
          ELSE /\ access' = IF pr.found /\ dirty
                            THEN [access EXCEPT ![pair] =
                                    [@ EXCEPT !.is_registered = IF assigned.is_registered # pr.lreg
                                                                THEN assigned.is_registered ELSE @,
                                              !.has_deposit = IF assigned.has_deposit # pr.ldep
                                                              THEN assigned.has_deposit ELSE @,
                                              !.click_id = IF assigned.click_id # pr.lclick
                                                           THEN assigned.click_id ELSE @,
                                              !.total_deposits = IF assigned.total_deposits # pr.stot
                                                                 THEN assigned.total_deposits ELSE @]]
                            ELSE access
               /\ events' = Append(events, Event(pr.t, pr.u, pr.click, pr.kind, pr.amt))
               /\ had' = [had EXCEPT ![pair] =
                            IF pr.kind = "reg" THEN [@ EXCEPT !.reg = TRUE]
                            ELSE [@ EXCEPT !.dep = TRUE]]
               /\ procs' = [procs EXCEPT ![p] = pb_after_commit(pr, FALSE)]
    /\ UNCHANGED <<tenants, langs, access_welcome_shown, ops, shown, menu_seen, bcVars, svVars, senderVars>>

\* what a Telegram call does: it succeeds, it raises TelegramBadRequest or
\* TelegramForbiddenError (chat not found, bot blocked), or it raises another
\* exception (network error, flood control, revoked token)
SendFaults == {"ok", "refused", "other"}

\* _safe_send_message: the text is sent, the failure is logged, or the
\* exception leaves the function
safe_send_message(fault) ==
    CASE fault = "ok" -> "sent"
      [] fault = "refused" -> "dropped"
      [] OTHER -> "raised"

\* _send_screen_with_photo_to_user: the photo of the first asset file that
\* exists, the text when there is none or the photo failed unexpectedly
send_screen_with_photo_to_user(asset, photo, text) ==
    IF asset
    THEN CASE photo = "ok" -> "sent"
           [] photo = "refused" -> "dropped"
           [] OTHER -> safe_send_message(text)
    ELSE safe_send_message(text)

\* the screen of the push: deposit screen or access-granted screen after
\* reg, the access-granted screen after ftd and rd
pb_screen(kind, tenantRow) ==
    IF kind = "reg"
    THEN IF deposit_required(tenantRow) THEN "deposit" ELSE "access"
    ELSE "access"

\* the push after the commit; an exception that leaves the send leaves the
\* handler (try / finally: bot.session.close())
PbNotify(p) ==
    /\ procs[p].pc = "pb_notify"
    /\ \E asset \in BOOLEAN, photo \in SendFaults, text \in SendFaults :
         LET pr == procs[p]
             res == send_screen_with_photo_to_user(asset, photo, text)
         IN procs' = [procs EXCEPT ![p] =
                        [pr EXCEPT !.pc = "done", !.sent = res,
                                   !.status = IF res = "raised" THEN "raised" ELSE "ok",
                                   !.out = IF res = "sent"
                                           THEN <<pb_screen(pr.kind, tenants[pr.t])>>
                                           ELSE <<>>]]
    /\ UNCHANGED <<tenants, access, events, langs, access_welcome_shown, ops, shown, had, menu_seen, bcVars, svVars, senderVars>>

\* ------------------------------------------------------------------------
\* Operator actions on one user: _admin_toggle_user_flag, _admin_delete_user_record
\* ------------------------------------------------------------------------

TogStart(p, t, u, f) ==
    /\ procs[p].op = "idle"
    /\ procs' = [procs EXCEPT ![p] = [Begin("toggle", "tog_read", t, u) EXCEPT !.flag = f]]
    /\ ops' = ops + 1
    /\ UNCHANGED <<tenants, access, events, langs, access_welcome_shown, shown, had, menu_seen, bcVars, svVars, senderVars>>

TogRead(p) ==
    /\ procs[p].pc = "tog_read"
    /\ LET pr == procs[p]
           ua == access[<<pr.t, pr.u>>]
       IN procs' = [procs EXCEPT ![p] =
                      IF ua.exists
                      THEN [pr EXCEPT !.pc = "tog_commit",
                                      !.lreg = ua.is_registered, !.ldep = ua.has_deposit]
                      ELSE [pr EXCEPT !.pc = "done", !.status = "notfound"]]
    /\ UNCHANGED <<tenants, access, events, langs, access_welcome_shown, ops, shown, had, menu_seen, bcVars, svVars, senderVars>>

TogCommit(p) ==
    /\ procs[p].pc = "tog_commit"
    /\ LET pr == procs[p]
           pair == <<pr.t, pr.u>>
       IN IF ~access[pair].exists
          THEN /\ procs' = [procs EXCEPT ![p] = Raise(pr)]
               /\ UNCHANGED access
          ELSE /\ access' = IF pr.flag = "reg"
                            THEN [access EXCEPT ![pair].is_registered = ~pr.lreg]
                            ELSE [access EXCEPT ![pair].has_deposit = ~pr.ldep]
               /\ procs' = [procs EXCEPT ![p] = [pr EXCEPT !.pc = "done", !.status = "ok"]]
    /\ UNCHANGED <<tenants, events, langs, access_welcome_shown, ops, shown, had, menu_seen, bcVars, svVars, senderVars>>

DelStart(p, t, u) ==
    /\ procs[p].op = "idle"
    /\ procs' = [procs EXCEPT ![p] = Begin("delete", "del_commit", t, u)]
    /\ ops' = ops + 1
    /\ UNCHANGED <<tenants, access, events, langs, access_welcome_shown, shown, had, menu_seen, bcVars, svVars, senderVars>>

\* the three DELETE statements and the commit
DelCommit(p) ==
    /\ procs[p].pc = "del_commit"
    /\ LET pr == procs[p]
           pair == <<pr.t, pr.u>>
           keep(e) == ~(e.tenant_id = pr.t /\ e.user_id = pr.u)
       IN /\ access' = [access EXCEPT ![pair] = NoRow]
          /\ langs' = [langs EXCEPT ![pair] = NoLang]
          /\ events' = SelectSeq(events, keep)
          /\ procs' = [procs EXCEPT ![p].pc = "del_discard"]
    /\ UNCHANGED <<tenants, access_welcome_shown, ops, shown, had, menu_seen, bcVars, svVars, senderVars>>

\* access_welcome_shown.discard((tenant_id, user_id))
DelDiscard(p) ==
    /\ procs[p].pc = "del_discard"
    /\ access_welcome_shown' = access_welcome_shown \ {<<procs[p].t, procs[p].u>>}
    /\ shown' = [shown EXCEPT ![<<procs[p].t, procs[p].u>>] = 0]
    /\ procs' = [procs EXCEPT ![p] = [procs[p] EXCEPT !.pc = "done", !.status = "ok"]]
    /\ UNCHANGED <<tenants, access, events, langs, ops, had, menu_seen, bcVars, svVars, senderVars>>

\* ------------------------------------------------------------------------
\* Funnel: _handle_signal_flow, cmd_start, cb_lang, _send_main_menu
\* ------------------------------------------------------------------------

\* the handler sends one screen and is over
Send(pr, screen) == [pr EXCEPT !.pc = "done", !.status = "ok", !.out = Append(@, screen)]

\* cb_menu_signal: the user presses the menu:signal button of a main menu
AdvStart(p, t, u) ==
    /\ procs[p].op = "idle"
    /\ <<t, u>> \in menu_seen
    /\ procs' = [procs EXCEPT ![p] = Begin("adv", "adv_tenant", t, u)]
    /\ ops' = ops + 1
    /\ UNCHANGED <<tenants, access, events, langs, access_welcome_shown, shown, had, menu_seen, bcVars, svVars, senderVars>>

\* tenant = await _get_tenant(tenant_id)
AdvTenant(p) ==
    /\ procs[p].pc = "adv_tenant"
    /\ LET pr == procs[p]
           tn == tenants[pr.t]
       IN procs' = [procs EXCEPT ![p] =
                      IF tn.exists
                      THEN [pr EXCEPT !.pc = "adv_lang", !.csub = tn.check_subscription,
                                      !.cdep = tn.check_deposit, !.cchan = tn.gate_channel_id]
                      ELSE Send(pr, "config_error")]
    /\ UNCHANGED <<tenants, access, events, langs, access_welcome_shown, ops, shown, had, menu_seen, bcVars, svVars, senderVars>>

\* lang = await _get_user_lang(...) or settings.lang_default
AdvLang(p) ==
    /\ procs[p].pc = "adv_lang"
    /\ LET stored == langs[<<procs[p].t, procs[p].u>>]
       IN procs' = [procs EXCEPT ![p].pc = "goc_read", ![p].slang = stored,
                                 ![p].lang = IF stored = NoLang THEN lang_default ELSE stored]
    /\ UNCHANGED <<tenants, access, events, langs, access_welcome_shown, ops, shown, had, menu_seen, bcVars, svVars, senderVars>>

\* _check_subscription: what the membership lookup gives
check_subscription(cchan, lookup) ==
    IF ~cchan THEN TRUE ELSE lookup = "member"

\* step 1 of _handle_signal_flow: the membership lookup is an await
AdvSub(p) ==
    /\ procs[p].pc = "adv_sub"
    /\ \E lookup \in {"member", "left", "error"} :
         LET pr == [procs[p] EXCEPT !.lookup = IF procs[p].cchan THEN lookup ELSE ""]
             is_subscribed == check_subscription(pr.cchan, lookup)
         IN procs' = [procs EXCEPT ![p] =
                        IF is_subscribed
                        THEN [pr EXCEPT !.pc = "adv_decide", !.subok = TRUE]
                        ELSE Send(pr, "subscribe")]
    /\ UNCHANGED <<tenants, access, events, langs, access_welcome_shown, ops, shown, had, menu_seen, bcVars, svVars, senderVars>>

\* steps 2-4 with the deposit test first
signal_flow_deposit_first(is_registered, has_deposit, check_deposit, marked) ==
    IF check_deposit /\ ~has_deposit THEN "deposit"
    ELSE IF ~is_registered THEN "register"
    ELSE IF ~marked THEN "access"
    ELSE "nothing"

\* steps 2-4 of _handle_signal_flow: the screen for the flags
signal_flow_screen(is_registered, has_deposit, check_deposit, marked) ==
    IF ~is_registered THEN "register"
    ELSE IF check_deposit /\ ~has_deposit THEN "deposit"
    ELSE IF ~marked THEN "access"
    ELSE "nothing"

\* the marker set is left as it was
welcome_not_added(shownset, key) == shownset

\* access_welcome_shown.add(key)
welcome_add(shownset, key) == shownset \cup {key}

\* steps 2-4 run without an await up to the send
AdvDecide(p) ==
    /\ procs[p].pc = "adv_decide"
    /\ LET pr == procs[p]
           key == <<pr.t, pr.u>>
           screen == signal_flow_screen(pr.rreg, pr.rdep, pr.cdep,
                                        key \in access_welcome_shown)
           at == [pr EXCEPT !.marked = key \in access_welcome_shown]
       IN /\ procs' = [procs EXCEPT ![p] =
                         IF screen = "nothing"
                         THEN [at EXCEPT !.pc = "done", !.status = "ok"]
                         ELSE Send(at, screen)]
          /\ access_welcome_shown' = IF screen = "access"
                                     THEN welcome_add(access_welcome_shown, key)
                                     ELSE access_welcome_shown
          /\ shown' = IF screen = "access" THEN [shown EXCEPT ![key] = @ + 1] ELSE shown
    /\ UNCHANGED <<tenants, access, events, langs, ops, had, menu_seen, bcVars, svVars, senderVars>>

\* cmd_start
StartStart(p, t, u) ==
    /\ procs[p].op = "idle"
    /\ procs' = [procs EXCEPT ![p] = Begin("start", "goc_read", t, u)]
    /\ ops' = ops + 1
    /\ UNCHANGED <<tenants, access, events, langs, access_welcome_shown, shown, had, menu_seen, bcVars, svVars, senderVars>>

\* the start screen always being the main menu, in the default language
start_screen_menu(lang) == "menu"

\* cmd_start: the language picker when no language is stored
start_screen(lang) == IF lang = NoLang THEN "lang" ELSE "menu"

\* cmd_start after _get_or_create_access: lang = await _get_user_lang(...)
StartLang(p) ==
    /\ procs[p].pc = "start_lang"
    /\ LET stored == langs[<<procs[p].t, procs[p].u>>]
           pr == [procs[p] EXCEPT !.lang = stored, !.slang = stored]
       IN procs' = [procs EXCEPT ![p] =
                      IF start_screen(pr.lang) = "lang"
                      THEN Send(pr, "lang")
                      ELSE [pr EXCEPT !.pc = "menu_tenant", !.ph = 1]]
    /\ UNCHANGED <<tenants, access, events, langs, access_welcome_shown, ops, shown, had, menu_seen, bcVars, svVars, senderVars>>

\* cb_lang: the user picks a language
LangStart(p, t, u, code) ==
    /\ procs[p].op = "idle"
    /\ procs' = [procs EXCEPT ![p] = [Begin("lang", "lang_set", t, u) EXCEPT !.lang = code]]
    /\ ops' = ops + 1
    /\ UNCHANGED <<tenants, access, events, langs, access_welcome_shown, shown, had, menu_seen, bcVars, svVars, senderVars>>

\* _set_user_lang
LangSet(p) ==
    /\ procs[p].pc = "lang_set"
    /\ langs' = [langs EXCEPT ![<<procs[p].t, procs[p].u>>] = procs[p].lang]
    /\ procs' = [procs EXCEPT ![p].pc = "menu_tenant", ![p].ph = 1]
    /\ UNCHANGED <<tenants, access, events, access_welcome_shown, ops, shown, had, menu_seen, bcVars, svVars, senderVars>>

\* _send_main_menu: tenant = await _get_tenant(tenant_id)
MenuTenant(p) ==
    /\ procs[p].pc = "menu_tenant"
    /\ LET pr == procs[p]
           tn == tenants[pr.t]
       IN procs' = [procs EXCEPT ![p] =
                      IF tn.exists
                      THEN [pr EXCEPT !.pc = "goc_read", !.csub = tn.check_subscription,
                                      !.cdep = tn.check_deposit, !.cchan = tn.gate_channel_id]
                      ELSE Send(pr, "config_error")]
    /\ UNCHANGED <<tenants, access, events, langs, access_welcome_shown, ops, shown, had, menu_seen, bcVars, svVars, senderVars>>

\* _send_main_menu after _get_effective_access: full_access, the keyboard
MenuSend(p) ==
    /\ procs[p].pc = "menu_send"
    /\ LET pr == procs[p]
           full_access == pr.rreg /\ (~pr.cdep \/ pr.rdep)
       IN procs' = [procs EXCEPT ![p] = Send([pr EXCEPT !.full = full_access], "menu")]
    /\ menu_seen' = menu_seen \cup {<<procs[p].t, procs[p].u>>}
    /\ UNCHANGED <<tenants, access, events, langs, access_welcome_shown, ops, shown, had, bcVars, svVars, senderVars>>

\* _admin_toggle_param
ParamToggle(t, field) ==
    /\ tenants[t].exists
    /\ tenants' = IF field = "sub"
                  THEN [tenants EXCEPT ![t].check_subscription = ~@]
                  ELSE [tenants EXCEPT ![t].check_deposit = ~@]
    /\ ops' = ops + 1
    /\ UNCHANGED <<access, events, langs, access_welcome_shown, procs, shown, had, menu_seen, bcVars, svVars, senderVars>>

\* ------------------------------------------------------------------------
\* Tenants: _save_tenant, _delete_tenant_with_all_data
\* ------------------------------------------------------------------------

\* the owners who submit credentials, and the bot tokens they submit
Owners == {1, 2}
Tokens == {"a", "b"}

\* no row with this id in the tenants table
NoTenantRow ==
    [exists |-> FALSE, check_subscription |-> FALSE, check_deposit |-> FALSE,
     gate_channel_id |-> FALSE, owner |-> 0, bot_token |-> "", is_active |-> FALSE]

\* a tenants row of an owner, with its gate settings
TenantRow(owner, sub, dep, chan) ==
    [exists |-> TRUE, check_subscription |-> sub, check_deposit |-> dep,
     gate_channel_id |-> chan, owner |-> owner, bot_token |-> "a", is_active |-> TRUE]

\* Tenant(owner_telegram_id=owner_id, bot_token=token, ...): the column
\* defaults of models.py
NewTenant(owner, token) ==
    [TenantRow(owner, TRUE, TRUE, FALSE) EXCEPT !.bot_token = token]

\* the id an INSERT into tenants gets: one above the largest id in the table
NextTenantId(tn) ==
    LET ids == {t \in Tenants : tn[t].exists}
    IN IF ids = {} THEN 1 ELSE (CHOOSE t \in ids : \A e \in ids : e <= t) + 1

\* _handle_new_bot_token calls _save_tenant(owner_id, token, username)
SaveStart(p, owner, token) ==
    /\ procs[p].op = "idle"
    /\ procs' = [procs EXCEPT ![p] = [Begin("save", "save_read", 0, owner) EXCEPT
                                        !.token = token]]
    /\ ops' = ops + 1
    /\ UNCHANGED <<tenants, access, events, langs, access_welcome_shown, shown, had, menu_seen, bcVars, svVars, senderVars>>

\* select(Tenant).where(owner_telegram_id == owner_id); scalar_one_or_none
\* raises MultipleResultsFound on two rows
SaveRead(p) ==
    /\ procs[p].pc = "save_read"
    /\ LET pr == procs[p]
           rows == {t \in Tenants : tenants[t].exists /\ tenants[t].owner = pr.u}
       IN procs' = [procs EXCEPT ![p] =
                      IF Cardinality(rows) > 1 THEN Raise(pr)
                      ELSE IF rows # {}
                      THEN LET t == CHOOSE r \in rows : TRUE
                           IN [pr EXCEPT !.pc = "save_commit", !.found = TRUE, !.t = t,
                                         !.ltoken = tenants[t].bot_token]
                      ELSE [pr EXCEPT !.pc = "save_commit", !.found = FALSE]]
    /\ UNCHANGED <<tenants, access, events, langs, access_welcome_shown, ops, shown, had, menu_seen, bcVars, svVars, senderVars>>

\* commit and refresh: the UPDATE of the row found, which sets bot_token
\* when the submitted token differs from the loaded one and is_active
\* (nothing in the code clears it), or the INSERT of a new row; the row found may be
\* gone (StaleDataError, or the refresh fails); session.add(tenant): the
\* INSERT has no constraint on the owner to meet
SaveCommit(p) ==
    /\ procs[p].pc = "save_commit"
    /\ LET pr == procs[p]
       IN IF pr.found
          THEN IF tenants[pr.t].exists
               THEN /\ tenants' = [tenants EXCEPT ![pr.t].bot_token =
                                                     IF pr.token # pr.ltoken THEN pr.token ELSE @,
                                                  ![pr.t].is_active = TRUE]
                    /\ procs' = [procs EXCEPT ![p] = [pr EXCEPT !.pc = "done", !.status = "ok"]]
               ELSE /\ procs' = [procs EXCEPT ![p] = Raise(pr)]
                    /\ UNCHANGED tenants
          ELSE /\ NextTenantId(tenants) \in Tenants
               /\ tenants' = [tenants EXCEPT ![NextTenantId(tenants)] =
                                                 NewTenant(pr.u, pr.token)]
               /\ procs' = [procs EXCEPT ![p] =
                              [pr EXCEPT !.pc = "done", !.status = "ok",
                                         !.t = NextTenantId(tenants)]]
    /\ UNCHANGED <<access, events, langs, access_welcome_shown, ops, shown, had, menu_seen, bcVars, svVars, senderVars>>

\* cb_ga_tenant_delete calls _delete_tenant_with_all_data(tenant_id)
TenDelStart(p, t) ==
    /\ procs[p].op = "idle"
    /\ procs' = [procs EXCEPT ![p] = Begin("tdelete", "tdel_read", t, 0)]
    /\ ops' = ops + 1
    /\ UNCHANGED <<tenants, access, events, langs, access_welcome_shown, shown, had, menu_seen, bcVars, svVars, senderVars>>

\* select(Tenant).where(id == tenant_id); None: return False
TenDelRead(p) ==
    /\ procs[p].pc = "tdel_read"
    /\ procs' = [procs EXCEPT ![p] =
                   IF tenants[procs[p].t].exists
                   THEN [procs[p] EXCEPT !.pc = "tdel_commit", !.found = TRUE]
                   ELSE [procs[p] EXCEPT !.pc = "done", !.status = "notfound"]]
    /\ UNCHANGED <<tenants, access, events, langs, access_welcome_shown, ops, shown, had, menu_seen, bcVars, svVars, senderVars>>

\* the four DELETE statements and the commit; return True
TenDelCommit(p) ==
    /\ procs[p].pc = "tdel_commit"
    /\ LET t == procs[p].t
           keep(e) == e.tenant_id # t
       IN /\ access' = [pair \in Pairs |-> IF pair[1] = t THEN NoRow ELSE access[pair]]
          /\ langs' = [pair \in Pairs |-> IF pair[1] = t THEN NoLang ELSE langs[pair]]
          /\ events' = SelectSeq(events, keep)
          /\ tenants' = [tenants EXCEPT ![t] = NoTenantRow]
    /\ procs' = [procs EXCEPT ![p] = [procs[p] EXCEPT !.pc = "done", !.status = "ok"]]
    /\ UNCHANGED <<access_welcome_shown, ops, shown, had, menu_seen, bcVars, svVars, senderVars>>

\* ------------------------------------------------------------------------
\* Campaign dialogues: the in-memory state of the child runner and of the
\* parent bot
\* ------------------------------------------------------------------------

\* scheduled or started sends that can be pending at a time
MaxTasks == 1

\* posts of one campaign of the global admin
MaxPosts == 2

NoText == "None"
NoMedia == "None"

\* what the operator types: a campaign text, or a text that parses as HH:MM
Texts == {"hi", "15:30"}

\* the posts the global admin collects: a text, or a photo without caption
PostKinds == {[text |-> "hi", media |-> NoMedia], [text |-> "", media |-> "photo"]}

\* what the operator types when asked for a time
TimeTexts == {"hi", "1530", "15:30", "00:00", "23:59", "9:5", "+7:05",
              "24:00", "15:60", "-1:30", "15:30:00", "15:"}

\* the characters of a message text
Chars(text) ==
    CASE text = "hi" -> <<"h", "i">>
      [] text = "1530" -> <<"1", "5", "3", "0">>
      [] text = "15:30" -> <<"1", "5", ":", "3", "0">>
      [] text = "00:00" -> <<"0", "0", ":", "0", "0">>
      [] text = "23:59" -> <<"2", "3", ":", "5", "9">>
      [] text = "9:5" -> <<"9", ":", "5">>
      [] text = "+7:05" -> <<"+", "7", ":", "0", "5">>
      [] text = "24:00" -> <<"2", "4", ":", "0", "0">>
      [] text = "15:60" -> <<"1", "5", ":", "6", "0">>
      [] text = "-1:30" -> <<"-", "1", ":", "3", "0">>
      [] text = "15:30:00" -> <<"1", "5", ":", "3", "0", ":", "0", "0">>
      [] text = "15:" -> <<"1", "5", ":">>
      [] OTHER -> <<>>

DigitVal(c) ==
    CASE c = "0" -> 0 [] c = "1" -> 1 [] c = "2" -> 2 [] c = "3" -> 3 [] c = "4" -> 4
      [] c = "5" -> 5 [] c = "6" -> 6 [] c = "7" -> 7 [] c = "8" -> 8 [] OTHER -> 9

\* the value of a run of digits
RECURSIVE DigitsVal(_)
DigitsVal(cs) ==
    IF cs = <<>> THEN 0
    ELSE 10 * DigitsVal(SubSeq(cs, 1, Len(cs) - 1)) + DigitVal(cs[Len(cs)])

\* int(s): an optional sign and at least one digit, or ValueError (ok is
\* false: the exception the handler catches)
py_int(cs) ==
    LET signed == cs # <<>> /\ cs[1] \in {"+", "-"}
        digits == IF signed THEN Tail(cs) ELSE cs
    IN IF digits = <<>> \/ \E i \in 1..Len(digits) : digits[i] \notin {"0", "1", "2", "3", "4", "5", "6", "7", "8", "9"}
       THEN [ok |-> FALSE, val |-> 0]
       ELSE [ok |-> TRUE,
             val |-> IF signed /\ cs[1] = "-" THEN 0 - DigitsVal(digits)
                     ELSE DigitsVal(digits)]

\* hour_str, min_str = text.split(":", 1): the halves around the first
\* colon; without a colon the unpacking fails
split_colon(cs) ==
    LET colons == {i \in 1..Len(cs) : cs[i] = ":"}
    IN IF colons = {} THEN <<>>
       ELSE LET i == CHOOSE c \in colons : \A e \in colons : c <= e
            IN <<SubSeq(cs, 1, i - 1), SubSeq(cs, i + 1, Len(cs))>>

\* now_msk.replace(hour=hour, minute=minute, ...) raises ValueError outside
\* 0..23 and 0..59
replace_accepts_any(hour, minute) == TRUE

replace_accepts(hour, minute) == hour \in 0..23 /\ minute \in 0..59

\* the try block up to the replace: hour and minute, or the exception
parse_time(text) ==
    LET halves == split_colon(Chars(text))
    IN IF halves = <<>> THEN [ok |-> FALSE, hour |-> 0, minute |-> 0]
       ELSE LET hour == py_int(halves[1])
                minute == py_int(halves[2])
            IN IF hour.ok /\ minute.ok /\ replace_accepts(hour.val, minute.val)
               THEN [ok |-> TRUE, hour |-> hour.val, minute |-> minute.val]
               ELSE [ok |-> FALSE, hour |-> 0, minute |-> 0]

\* the try block of the time stage ends without an exception
ParsesAsTime(text) == parse_time(text).ok

DaySeconds == 86400

\* datetime.now(tz) as seconds since local midnight (Europe/Moscow has a
\* fixed offset): around midnight and around 15:30
Clock == {0, 1, 55799, 55800, 55801, 86399}

\* the current time in the behaviours of the campaign dialogues
BcClock == {55801}

\* target = now.replace(...); if target <= now: target += 1 day; the target
\* in seconds since the midnight before now
schedule_target_same_day(hour, minute, now) == hour * 3600 + minute * 60

schedule_target(hour, minute, now) ==
    LET target == hour * 3600 + minute * 60
    IN IF target <= now THEN target + DaySeconds ELSE target

\* delay = (target - now_msk).total_seconds()
schedule_delay(text, now) ==
    schedule_target(parse_time(text).hour, parse_time(text).minute, now) - now

\* handle_text / handle_media calls that can be past their lookup at a time
BcProcs == {1, 2}
DictIds == 1..(Cardinality(BcProcs) + 1)
TaskIds == 1..MaxTasks
ListIds == 1..(MaxTasks + 1)

\* no entry in broadcast_state / a handler without a dict
NoRef == 0

\* cancelled: the entry was removed by a cancel; sends: the campaigns sent or
\* scheduled from the dict (both history)
NoDict == [tenant_id |-> 0, segment |-> "", lang_code |-> NoLang, stage |-> "",
           text |-> NoText, media |-> NoMedia, cancelled |-> FALSE, sends |-> 0]

\* the dict literal cb_admin stores in broadcast_state
NewDict(tb, seg, code, stage) ==
    [tenant_id |-> tb, segment |-> seg, lang_code |-> code, stage |-> stage,
     text |-> NoText, media |-> NoMedia, cancelled |-> FALSE, sends |-> 0]

NoHandler == [pc |-> "idle", tb |-> 0, ref |-> NoRef, text |-> NoText]

\* no entry in ga_broadcast_state
NoGaState == [target_type |-> "", tenant_id |-> 0, stage |-> "", messages |-> NoRef]

\* the arguments of a pending send; of a scheduled one also the text the
\* time was read from and the time it was read at (history)
NoTask == [who |-> "", tenant_id |-> 0, segment |-> "", lang_code |-> NoLang,
           text |-> NoText, media |-> NoMedia, target_type |-> "",
           messages |-> NoRef, now |-> FALSE, delay |-> 0,
           time_text |-> NoText, at |-> 0]

\* no campaign was sent yet.  Of a send: its arguments, the recipients
\* resolved (targets; user_ids is the list the loop walks), the users whose
\* chat accepts a post of it (delivered), the position of the loop (pc),
\* the message to the operator (notice), the counters, and the deliveries
\* attempted so far as <<user id, index of the post, sent or not>>
NoDispatch == [who |-> "", tenant_id |-> 0, segment |-> "", lang_code |-> NoLang,
               target_type |-> "", posts |-> <<>>, targets |-> {}, delivered |-> {},
               user_ids |-> <<>>, pc |-> "", notice |-> "", sent |-> 0, failed |-> 0,
               attempts |-> <<>>]

\* the runner and the parent bot have just started: no dialogue, no task
NoCampaign ==
    /\ broadcast_state = NoRef
    /\ bc_dicts = [d \in DictIds |-> NoDict]
    /\ bc_handlers = [p \in BcProcs |-> NoHandler]
    /\ kb_shown = {}
    /\ ga_broadcast_state = NoGaState
    /\ ga_lists = [l \in ListIds |-> <<>>]
    /\ ga_kb_shown = {}
    /\ tasks = [k \in TaskIds |-> NoTask]
    /\ dispatch = NoDispatch

\* ------------------------------------------------------------------------
\* Senders and the admin gates: _is_ga, _is_tenant_admin, and the handlers
\* of both bots as the sender of an update meets them
\* ------------------------------------------------------------------------

\* settings.ga_admin_ids
GaAdminIds == {9}

\* the users who send updates: the owners of the two tenants, a global admin
Senders == {1, 2, 9}

\* broadcast_state.get(uid) is None / ga_broadcast_state.get(uid) is None
NoBc == [tenant_id |-> 0, stage |-> ""]
NoGa == [stage |-> "", tenant_id |-> 0, posts |-> 0]

\* a sender without entries; search and link hold the tenant id of the
\* marker, 0 for none; posts is 1 for a non-empty "messages" list
NoEntries == [bc |-> NoBc, search |-> 0, link |-> 0, ga |-> NoGa]

NoEffect == [sender |-> 0, tenant_id |-> 0, kind |-> "", owner |-> 0]

\* the operation kind a handler carries out for sender s on tenant t, and
\* who owns the tenant at that moment (history)
Effect(s, t, kind) ==
    [sender |-> s, tenant_id |-> t, kind |-> kind,
     owner |-> IF t \in Tenants /\ tenants[t].exists THEN tenants[t].owner ELSE 0]

NoSenders ==
    /\ entries = [s \in Senders |-> NoEntries]
    /\ last_effect = NoEffect

\* a variant of _is_ga that lets every sender pass
is_ga_open(s) == TRUE

\* _is_ga: user_id in settings.ga_admin_ids
is_ga(s) == s \in GaAdminIds

\* _is_tenant_admin: a global admin, or the owner_telegram_id of the row
is_tenant_admin(t, s) ==
    \/ s \in GaAdminIds
    \/ tenants[t].exists /\ tenants[t].owner = s

\* the adm: callback data the keyboards of a child bot carry
AdmCmds == {"users:search", "user:reg", "user:del", "params:sub", "links:set",
            "bc:seg:lang", "bc:seg:all", "bc:lang", "bc:media:yes", "bc:media:no",
            "bc:time:now", "bc:time:later", "bc:cancel"}

\* cb_admin of the router of tenant t, for a callback of sender s
cb_admin(s, t, cmd) ==
    /\ is_tenant_admin(t, s)
    /\ LET e == entries[s]
           mine == e.bc # NoBc /\ e.bc.tenant_id = t
           set(x) == /\ entries' = [entries EXCEPT ![s] = x]
                     /\ UNCHANGED last_effect
           do(x, kind) == /\ entries' = [entries EXCEPT ![s] = x]
                          /\ last_effect' = Effect(s, t, kind)
       IN CASE cmd = "users:search" -> set([e EXCEPT !.search = t])
            [] cmd = "user:reg" -> do(e, "toggle")
            [] cmd = "user:del" -> do(e, "delete_user")
            [] cmd = "params:sub" -> do(e, "param")
            [] cmd = "links:set" -> set([e EXCEPT !.link = t])
            [] cmd = "bc:seg:lang" ->
                 set([e EXCEPT !.bc = [tenant_id |-> t, stage |-> "await_lang"]])
            [] cmd \in {"bc:seg:all", "bc:lang"} ->
                 set([e EXCEPT !.bc = [tenant_id |-> t, stage |-> "await_text"]])
            [] cmd = "bc:media:yes" /\ mine -> set([e EXCEPT !.bc.stage = "await_media"])
            [] cmd = "bc:media:no" /\ mine -> set([e EXCEPT !.bc.stage = "ask_time"])
            [] cmd = "bc:time:now" /\ mine -> do([e EXCEPT !.bc = NoBc], "campaign")
            [] cmd = "bc:time:later" /\ mine -> set([e EXCEPT !.bc.stage = "await_time"])
            [] cmd = "bc:cancel" -> set([e EXCEPT !.bc = NoBc])
            [] OTHER -> UNCHANGED senderVars
    /\ UNCHANGED <<rowVars, bcVars, svVars>>

\* handle_text of the router of tenant t, for a message of sender s that
\* parses as a time or not: both markers are popped before their tenant
\* and the sender are tested
child_handle_text(s, t, timeok) ==
    /\ LET e == entries[s]
           e1 == [e EXCEPT !.search = 0]
           e2 == [e1 EXCEPT !.link = 0]
       IN IF e.search # 0 /\ e.search = t /\ is_tenant_admin(t, s)
          THEN /\ entries' = [entries EXCEPT ![s] = e1]
               /\ UNCHANGED last_effect
          ELSE IF e.link # 0 /\ e.link = t /\ is_tenant_admin(t, s)
          THEN /\ entries' = [entries EXCEPT ![s] = e2]
               /\ last_effect' = Effect(s, t, "link")
          ELSE IF e.bc # NoBc /\ e.bc.tenant_id = t /\ is_tenant_admin(t, s)
          THEN CASE e.bc.stage = "await_text" ->
                      /\ entries' = [entries EXCEPT ![s] = [e2 EXCEPT !.bc.stage = "ask_media"]]
                      /\ UNCHANGED last_effect
                 [] e.bc.stage = "await_time" /\ timeok ->
                      /\ entries' = [entries EXCEPT ![s] = [e2 EXCEPT !.bc = NoBc]]
                      /\ last_effect' = Effect(s, t, "campaign")
                 [] OTHER ->
                      /\ entries' = [entries EXCEPT ![s] = e2]
                      /\ UNCHANGED last_effect
          ELSE /\ entries' = [entries EXCEPT ![s] = e2]
               /\ UNCHANGED last_effect
    /\ UNCHANGED <<rowVars, bcVars, svVars>>

\* handle_media of the router of tenant t
child_handle_media(s, t) ==
    /\ LET e == entries[s]
       IN /\ e.bc # NoBc
          /\ e.bc.tenant_id = t
          /\ is_tenant_admin(t, s)
          /\ e.bc.stage = "await_media"
          /\ entries' = [entries EXCEPT ![s].bc.stage = "ask_time"]
    /\ UNCHANGED <<rowVars, bcVars, svVars, last_effect>>

\* cb_ga_bc_all (target 0) and cb_ga_bc_tenant of the parent bot
cb_ga_bc_start(s, target) ==
    /\ is_ga(s)
    /\ entries' = [entries EXCEPT ![s].ga =
                     [stage |-> "collect_msgs", tenant_id |-> target, posts |-> 0]]
    /\ UNCHANGED <<rowVars, bcVars, svVars, last_effect>>

\* cb_ga_bc_done_msgs
cb_ga_bc_done_msgs(s) ==
    /\ entries[s].ga # NoGa
    /\ entries[s].ga.stage = "collect_msgs"
    /\ entries[s].ga.posts > 0
    /\ entries' = [entries EXCEPT ![s].ga.stage = "ask_time"]
    /\ UNCHANGED <<rowVars, bcVars, svVars, last_effect>>

\* cb_ga_bc_time
cb_ga_bc_time(s, choice) ==
    /\ entries[s].ga # NoGa
    /\ entries[s].ga.posts > 0
    /\ IF choice = "now"
       THEN /\ entries' = [entries EXCEPT ![s].ga = NoGa]
            /\ last_effect' = Effect(s, entries[s].ga.tenant_id, "ga_campaign")
       ELSE /\ entries' = [entries EXCEPT ![s].ga.stage = "await_time"]
            /\ UNCHANGED last_effect
    /\ UNCHANGED <<rowVars, bcVars, svVars>>

\* cb_ga_bc_cancel
cb_ga_bc_cancel(s) ==
    /\ entries' = [entries EXCEPT ![s].ga = NoGa]
    /\ UNCHANGED <<rowVars, bcVars, svVars, last_effect>>

\* handle_text of the parent bot: a text that reads as a time, as a bot
\* token (which _save_tenant stores for the sender), or as neither
parent_handle_text(s, kind, token) ==
    LET g == entries[s].ga
        own == {t \in Tenants : tenants[t].exists /\ tenants[t].owner = s}
    IN IF g # NoGa /\ is_ga(s) /\ g.stage = "collect_msgs"
       THEN /\ entries' = [entries EXCEPT ![s].ga.posts = 1]
            /\ UNCHANGED <<rowVars, bcVars, svVars, last_effect>>
       ELSE IF g # NoGa /\ is_ga(s) /\ g.stage = "await_time"
       THEN /\ kind = "time"
            /\ entries' = [entries EXCEPT ![s].ga = NoGa]
            /\ last_effect' = Effect(s, g.tenant_id, "ga_campaign")
            /\ UNCHANGED <<rowVars, bcVars, svVars>>
       ELSE /\ kind = "token"
            /\ Cardinality(own) <= 1
            /\ IF own # {}
               THEN tenants' = [tenants EXCEPT ![CHOOSE t \in own : TRUE] =
                                  [@ EXCEPT !.bot_token = token, !.is_active = TRUE]]
               ELSE /\ NextTenantId(tenants) \in Tenants
                    /\ tenants' = [tenants EXCEPT ![NextTenantId(tenants)] = NewTenant(s, token)]
            /\ UNCHANGED <<access, events, langs, access_welcome_shown, procs, shown,
                           had, menu_seen, bcVars, svVars, senderVars>>

\* handle_media of the parent bot
parent_handle_media(s) ==
    /\ entries[s].ga # NoGa
    /\ is_ga(s)
    /\ entries[s].ga.stage = "collect_msgs"
    /\ entries' = [entries EXCEPT ![s].ga.posts = 1]
    /\ UNCHANGED <<rowVars, bcVars, svVars, last_effect>>

\* cb_ga_tenantdel, _ga_delete_tenant_handler and the deletion it commits
cb_ga_tenantdel(s, t) ==
    /\ is_ga(s)
    /\ tenants[t].exists
    /\ last_effect' = Effect(s, t, "delete_tenant")
    /\ access' = [pair \in Pairs |-> IF pair[1] = t THEN NoRow ELSE access[pair]]
    /\ langs' = [pair \in Pairs |-> IF pair[1] = t THEN NoLang ELSE langs[pair]]
    /\ events' = SelectSeq(events, LAMBDA e : e.tenant_id # t)
    /\ tenants' = [tenants EXCEPT ![t] = NoTenantRow]
    /\ UNCHANGED <<access_welcome_shown, procs, shown, had, menu_seen, bcVars, svVars,
                   entries>>

\* ------------------------------------------------------------------------
\* Supervisor of the child bots: ChildrenManager.tick, run_children_loop,
\* run_child_bot
\* ------------------------------------------------------------------------

\* task objects a behaviour holds at a time
MaxChildren == 3
ChildIds == 1..MaxChildren

\* no such task: never created, or terminated and referenced by nothing
NoChild == [state |-> "none", tenant_id |-> 0, bot_token |-> ""]

\* asyncio.create_task(run_child_bot(bot_token=bot_token, tenant_id=tenant_id))
NewChild(t, token) == [state |-> "starting", tenant_id |-> t, bot_token |-> token]

\* the loop sleeps; manager = ChildrenManager() has no task
NoSupervisor ==
    /\ manager_tasks = [t \in Tenants |-> 0]
    /\ child_bots = [c \in ChildIds |-> NoChild]
    /\ runner = [pc |-> "sleep", rows |-> [t \in Tenants |-> NoTenantRow], raised |-> FALSE]

\* a variant that skips the is_active test of tick
active_ids_with_token(rows) ==
    {t \in Tenants : rows[t].exists /\ rows[t].bot_token # ""}

\* active_ids of tick: the rows that are active and have a token
active_ids(rows) ==
    {t \in Tenants : rows[t].exists /\ rows[t].is_active /\ rows[t].bot_token # ""}

\* asyncio.sleep(5) is over: manager.tick() is called
TickStart ==
    /\ runner.pc = "sleep"
    /\ runner' = [runner EXCEPT !.pc = "read", !.raised = FALSE]
    /\ UNCHANGED <<ledgerVars, bcVars, manager_tasks, child_bots, senderVars>>

\* select(Tenant.id, Tenant.bot_token, Tenant.is_active); rows = res.all()
TickRead ==
    /\ runner.pc = "read"
    /\ runner' = [runner EXCEPT !.pc = "apply", !.rows = tenants]
    /\ UNCHANGED <<ledgerVars, bcVars, manager_tasks, child_bots, senderVars>>

\* the select fails: tick raises, run_children_loop logs it and sleeps
TickRaise ==
    /\ runner.pc = "read"
    /\ runner' = [runner EXCEPT !.pc = "sleep", !.raised = TRUE]
    /\ UNCHANGED <<ledgerVars, bcVars, manager_tasks, child_bots, senderVars>>

\* the two loops of tick, which hold no await: a task is created for each
\* active row without a task or with a finished one, then the task of
\* every tenant that is not in active_ids is cancelled and its entry deleted.
\* task.cancel() requests the termination; a finished task stays finished.
\* A task nothing refers to any more is gone when it has finished.
TickApply ==
    /\ runner.pc = "apply"
    /\ LET active == active_ids(runner.rows)
           starts == {t \in active : \/ manager_tasks[t] = 0
                                     \/ child_bots[manager_tasks[t]].state = "done"}
           dropped == {manager_tasks[t] : t \in starts} \ {0}
           free == {c \in ChildIds : child_bots[c].state = "none"} \cup dropped
           stops == {t \in Tenants \ active : manager_tasks[t] # 0}
           cancelled == {manager_tasks[t] : t \in stops}
       IN /\ \E f \in [starts -> free] : \A a, b \in starts : a # b => f[a] # f[b]
          /\ LET f == CHOOSE g \in [starts -> free] :
                          \A a, b \in starts : a # b => g[a] # g[b]
             IN /\ manager_tasks' = [t \in Tenants |->
                                       IF t \in starts THEN f[t]
                                       ELSE IF t \in stops THEN 0
                                       ELSE manager_tasks[t]]
                /\ child_bots' = [c \in ChildIds |->
                                    IF \E t \in starts : f[t] = c
                                    THEN LET t == CHOOSE s \in starts : f[s] = c
                                         IN NewChild(t, runner.rows[t].bot_token)
                                    ELSE IF c \in dropped THEN NoChild
                                    ELSE IF c \in cancelled
                                    THEN IF child_bots[c].state = "done" THEN NoChild
                                         ELSE [child_bots[c] EXCEPT !.state = "cancelling"]
                                    ELSE child_bots[c]]
    /\ runner' = [runner EXCEPT !.pc = "sleep"]
    /\ UNCHANGED <<ledgerVars, bcVars, senderVars>>

\* run_child_bot: _get_tenant; None: return; else dp.start_polling(bot)
ChildStart(c) ==
    /\ child_bots[c].state = "starting"
    /\ child_bots' = [child_bots EXCEPT ![c].state =
                        IF tenants[child_bots[c].tenant_id].exists THEN "polling" ELSE "done"]
    /\ UNCHANGED <<ledgerVars, bcVars, manager_tasks, runner, senderVars>>

\* start_polling raises or returns; finally: bot.session.close()
ChildCrash(c) ==
    /\ child_bots[c].state = "polling"
    /\ child_bots' = [child_bots EXCEPT ![c].state = "done"]
    /\ UNCHANGED <<ledgerVars, bcVars, manager_tasks, runner, senderVars>>

\* the CancelledError reaches the task at a suspension point, the finally
\* block has closed the session: the cancelled task has terminated
ChildStop(c) ==
    /\ child_bots[c].state = "cancelling"
    /\ child_bots' = [child_bots EXCEPT ![c] = NoChild]
    /\ UNCHANGED <<ledgerVars, bcVars, manager_tasks, runner, senderVars>>

\* ------------------------------------------------------------------------
\* Specifications of the ledger
\* ------------------------------------------------------------------------

\* both tenants exist with the column defaults; the tables are empty
InitEmpty ==
    /\ tenants = [t \in Tenants |-> TenantRow(t, TRUE, TRUE, FALSE)]
    /\ access = [pair \in Pairs |-> NoRow]
    /\ events = <<>>
    /\ langs = [pair \in Pairs |-> NoLang]
    /\ access_welcome_shown = {}
    /\ procs = [p \in Procs |-> Idle]
    /\ ops = 0
    /\ shown = [pair \in Pairs |-> 0]
    /\ had = [pair \in Pairs |-> [reg |-> FALSE, dep |-> FALSE]]
    /\ menu_seen = {}
    /\ NoCampaign
    /\ NoSupervisor
    /\ NoSenders

\* steps of the running handlers
LedgerStep(p) ==
    \/ GocRead(p) \/ GocCommit(p) \/ GocReread(p)
    \/ EvRead(p) \/ RecRead(p) \/ RecCommit(p)
    \/ PbTenant(p) \/ PbResolve(p) \/ PbResolveCommit(p)
    \/ PbRead(p) \/ PbCommit(p) \/ PbNotify(p)
    \/ TogRead(p) \/ TogCommit(p)
    \/ DelCommit(p) \/ DelDiscard(p)
    \/ Return(p)

LedgerStart(p) ==
    \/ \E t \in Tenants, u \in Users : GocStart(p, t, u)
    \/ \E t \in Tenants, u \in Users : EffStart(p, t, u)
    \/ \E t \in Tenants, k \in Kinds, c \in ClickIds, a \in Amounts : PbStart(p, t, k, c, a)
    \/ \E t \in Tenants, u \in Users, f \in {"reg", "dep"} : TogStart(p, t, u, f)
    \/ \E t \in Tenants, u \in Users : DelStart(p, t, u)

\* concurrent get_or_create calls only
NextGoc ==
    \E p \in Procs :
        \/ ops < MaxOps /\ \E t \in Tenants, u \in Users : GocStart(p, t, u)
        \/ GocRead(p) \/ GocCommit(p) \/ GocReread(p)
        \/ Return(p)

SpecGoc == InitEmpty /\ [][NextGoc]_vars

\* the ledger operations, one handler at a time
NextSeq ==
    \/ ops < MaxOps /\ LedgerStart(1)
    \/ LedgerStep(1)

SpecSeq == InitEmpty /\ [][NextSeq]_vars

\* ------------------------------------------------------------------------
\* Specification of the funnel of one tenant
\* ------------------------------------------------------------------------

\* handler invocations in one behaviour of the funnel
MaxFunnelOps == 2

FunnelTenant == 1

\* the users of the tenant's bot that act
FunnelUsers == {1}

\* a row as the ledger operations leave it
StoredRow(reg, dep, u) ==
    [UserAccess(Str(u)) EXCEPT !.is_registered = reg, !.has_deposit = dep]

\* the tenant is configured, its users have started the bot: a user has no
\* row, or a row whose flags the operator set, a language or none, a main
\* menu in the chat when a language was picked, and a registration notice
\* or none (of interest when the operator has unset the stored flag); a
\* gate channel is set only where subscription is checked
InitFunnel ==
    /\ \E sub \in BOOLEAN, dep \in BOOLEAN, chan \in BOOLEAN :
         /\ chan => sub
         /\ tenants = [t \in Tenants |-> TenantRow(t, sub, dep, chan)]
    /\ access \in [Pairs -> {NoRow} \cup {StoredRow(r, d, 1) : r \in BOOLEAN, d \in BOOLEAN}
                                    \cup {StoredRow(r, d, 2) : r \in BOOLEAN, d \in BOOLEAN}]
    /\ \A pair \in Pairs :
         /\ access[pair].exists => access[pair].click_id = Str(pair[2])
         /\ pair \notin {FunnelTenant} \X FunnelUsers => ~access[pair].exists
    /\ langs \in [Pairs -> {"en", NoLang}]
    /\ \A pair \in Pairs : ~access[pair].exists => langs[pair] = NoLang
    /\ menu_seen = {pair \in Pairs : langs[pair] # NoLang}
    /\ \E u \in FunnelUsers :
         events \in {<<>>, <<Event(FunnelTenant, u, Str(u), "reg", 0)>>}
    /\ \A i \in 1..Len(events) :
         /\ access[<<FunnelTenant, events[i].user_id>>].exists
         /\ ~access[<<FunnelTenant, events[i].user_id>>].is_registered
    /\ access_welcome_shown = {}
    /\ procs = [p \in Procs |-> Idle]
    /\ ops = 0
    /\ shown = [pair \in Pairs |-> 0]
    /\ had = [pair \in Pairs |->
                [reg |-> EventsOf(pair[1], pair[2], {"reg"}) # {}, dep |-> FALSE]]
    /\ NoCampaign
    /\ NoSupervisor
    /\ NoSenders

FunnelStep(p) ==
    \/ AdvTenant(p) \/ AdvLang(p) \/ AdvSub(p) \/ AdvDecide(p)
    \/ StartLang(p) \/ LangSet(p) \/ MenuTenant(p) \/ MenuSend(p)
    \/ GocRead(p) \/ GocCommit(p) \/ GocReread(p)
    \/ EvRead(p) \/ RecRead(p) \/ RecCommit(p)
    \/ TogRead(p) \/ TogCommit(p)
    \/ DelCommit(p) \/ DelDiscard(p)
    \/ Return(p)

FunnelStart(p) ==
    \/ \E u \in FunnelUsers : AdvStart(p, FunnelTenant, u)
    \/ \E u \in FunnelUsers : StartStart(p, FunnelTenant, u)
    \/ \E u \in FunnelUsers, code \in LANGS : LangStart(p, FunnelTenant, u, code)
    \/ \E u \in FunnelUsers, f \in {"reg", "dep"} : TogStart(p, FunnelTenant, u, f)
    \/ \E u \in FunnelUsers : DelStart(p, FunnelTenant, u)

\* a new handler takes the first free task slot
FreeSlot(p) == \A q \in Procs : q < p => procs[q].op # "idle"

\* the handlers of the child bot and the intake, interleaved at every await
NextFunnel ==
    \/ \E p \in Procs :
        \/ ops < MaxFunnelOps /\ FreeSlot(p) /\ FunnelStart(p)
        \/ FunnelStep(p)
    \/ ops < MaxFunnelOps /\ \E f \in {"sub", "dep"} : ParamToggle(FunnelTenant, f)

SpecFunnel == InitFunnel /\ [][NextFunnel]_vars

\* ------------------------------------------------------------------------
\* Specification of the conversion intake
\* ------------------------------------------------------------------------

\* handler invocations in one behaviour of the intake
MaxIntakeOps == 2

IntakeTenant == 1

\* the click_id values the external system sends: the user id of user 1,
\* and one no row carries
IntakeClicks == {"1", "x"}

\* the tenant checks deposits or not; user 1 of the tenant has started the
\* bot and has a row without flags, or has no row yet
InitIntake ==
    /\ \E dep \in BOOLEAN : tenants = [t \in Tenants |-> TenantRow(t, FALSE, dep, FALSE)]
    /\ \E row \in {NoRow, StoredRow(FALSE, FALSE, 1)} :
         access = [pair \in Pairs |-> IF pair = <<IntakeTenant, 1>> THEN row ELSE NoRow]
    /\ langs = [pair \in Pairs |-> IF access[pair].exists THEN "en" ELSE NoLang]
    /\ menu_seen = {pair \in Pairs : langs[pair] # NoLang}
    /\ events = <<>>
    /\ access_welcome_shown = {}
    /\ procs = [p \in Procs |-> Idle]
    /\ ops = 0
    /\ shown = [pair \in Pairs |-> 0]
    /\ had = [pair \in Pairs |-> [reg |-> FALSE, dep |-> FALSE]]
    /\ NoCampaign
    /\ NoSupervisor
    /\ NoSenders

IntakeStep(p) ==
    \/ PbTenant(p) \/ PbResolve(p) \/ PbResolveCommit(p)
    \/ PbRead(p) \/ PbCommit(p) \/ PbNotify(p)
    \/ DelCommit(p) \/ DelDiscard(p)
    \/ Return(p)

IntakeStart(p) ==
    \/ \E k \in Kinds, c \in IntakeClicks, a \in Amounts : PbStart(p, IntakeTenant, k, c, a)
    \/ DelStart(p, IntakeTenant, 1)

\* the intake handlers and the operator's deletion, interleaved at every await
NextIntake ==
    \E p \in Procs :
        \/ ops < MaxIntakeOps /\ FreeSlot(p) /\ IntakeStart(p)
        \/ IntakeStep(p)

SpecIntake == InitIntake /\ [][NextIntake]_vars

\* ------------------------------------------------------------------------
\* _admin_collect_broadcast_targets
\* ------------------------------------------------------------------------

\* the user ids the segment query of a tenant-level campaign returns
admin_collect_broadcast_targets(t, segment, lang_code) ==
    LET rows == {u \in Users : access[<<t, u>>].exists}
    IN CASE segment \in {"all", "sub"} -> rows
         [] segment = "reg" -> {u \in rows : access[<<t, u>>].is_registered}
         [] segment = "dep" -> {u \in rows : access[<<t, u>>].has_deposit}
         [] segment = "lang" /\ lang_code # NoLang ->
                {u \in rows : langs[<<t, u>>] = lang_code}
         [] OTHER -> rows

\* ------------------------------------------------------------------------
\* Campaign dialogue of a child bot: cb_admin (adm:bc:...), handle_text,
\* handle_media, _scheduled_broadcast
\* ------------------------------------------------------------------------

\* a dict object is reachable from broadcast_state or from a running handler
Live(d, bs, hs) == d = bs \/ \E p \in BcProcs : hs[p].ref = d

\* the assignments of a step; dict objects nothing refers to are collected
BcSet(bs, dicts, hs) ==
    /\ broadcast_state' = bs
    /\ bc_handlers' = hs
    /\ bc_dicts' = [d \in DictIds |-> IF Live(d, bs, hs) THEN dicts[d] ELSE NoDict]

\* the object a dict literal creates
FreshDict ==
    CHOOSE d \in DictIds :
        /\ \A p \in BcProcs : bc_handlers[p].ref # d
        /\ \A e \in DictIds : (\A p \in BcProcs : bc_handlers[p].ref # e) => d <= e

FreeTasks == {k \in TaskIds : tasks[k] = NoTask}

\* str(state.get("text") or "")
text_val(text) == IF text = NoText THEN "" ELSE text

\* the arguments _admin_do_broadcast / _scheduled_broadcast are called with
ChildTask(tb, d, now) ==
    [NoTask EXCEPT !.who = "child", !.tenant_id = tb, !.segment = d.segment,
                   !.lang_code = d.lang_code, !.text = text_val(d.text),
                   !.media = d.media, !.now = now]

\* adm:bc: the segment keyboard.  A keyboard stays pressable in the chat
\* for as long as its message exists; kb_shown and ga_kb_shown hold the
\* keyboards and the time re-prompts the operator's chat has received.
CbBc(tb) ==
    /\ kb_shown' = kb_shown \cup {"seg"}
    /\ UNCHANGED <<storeVars, broadcast_state, bc_dicts, bc_handlers,
                   ga_broadcast_state, ga_lists, ga_kb_shown, tasks, dispatch>>

\* adm:bc:seg:lang
CbSegLang(tb) ==
    /\ "seg" \in kb_shown
    /\ BcSet(FreshDict,
             [bc_dicts EXCEPT ![FreshDict] = NewDict(tb, "lang", NoLang, "await_lang")],
             bc_handlers)
    /\ kb_shown' = kb_shown \cup {"lang"}
    /\ UNCHANGED <<storeVars, ga_broadcast_state, ga_lists, ga_kb_shown, tasks, dispatch>>

\* adm:bc:seg:all, adm:bc:seg:reg, adm:bc:seg:dep
CbSeg(tb, seg) ==
    /\ "seg" \in kb_shown
    /\ BcSet(FreshDict,
             [bc_dicts EXCEPT ![FreshDict] = NewDict(tb, seg, NoLang, "await_text")],
             bc_handlers)
    /\ UNCHANGED <<storeVars, kb_shown, ga_broadcast_state, ga_lists, ga_kb_shown,
                   tasks, dispatch>>

\* adm:bc:lang:<code>
CbLang(tb, code) ==
    /\ "lang" \in kb_shown
    /\ code \in LANGS
    /\ BcSet(FreshDict,
             [bc_dicts EXCEPT ![FreshDict] = NewDict(tb, "lang", code, "await_text")],
             bc_handlers)
    /\ UNCHANGED <<storeVars, kb_shown, ga_broadcast_state, ga_lists, ga_kb_shown,
                   tasks, dispatch>>

\* state = broadcast_state.get(user.id); not state or tenant_id differs
HasSession(tb) ==
    /\ broadcast_state # NoRef
    /\ bc_dicts[broadcast_state].tenant_id = tb

\* adm:bc:media:yes, adm:bc:media:no
CbMedia(tb, choice) ==
    /\ "media" \in kb_shown
    /\ HasSession(tb)
    /\ BcSet(broadcast_state,
             [bc_dicts EXCEPT ![broadcast_state].stage =
                 IF choice = "yes" THEN "await_media" ELSE "ask_time"],
             bc_handlers)
    /\ kb_shown' = IF choice = "no" THEN kb_shown \cup {"time"} ELSE kb_shown
    /\ UNCHANGED <<storeVars, ga_broadcast_state, ga_lists, ga_kb_shown, tasks, dispatch>>

\* adm:bc:time:now
CbTimeNow(tb) ==
    /\ "time" \in kb_shown
    /\ HasSession(tb)
    /\ FreeTasks # {}
    /\ \E k \in FreeTasks :
         tasks' = [tasks EXCEPT ![k] = ChildTask(tb, bc_dicts[broadcast_state], TRUE)]
    /\ BcSet(NoRef, [bc_dicts EXCEPT ![broadcast_state].sends = @ + 1], bc_handlers)
    /\ UNCHANGED <<storeVars, kb_shown, ga_broadcast_state, ga_lists, ga_kb_shown, dispatch>>

\* adm:bc:time:later
CbTimeLater(tb) ==
    /\ "time" \in kb_shown
    /\ HasSession(tb)
    /\ BcSet(broadcast_state,
             [bc_dicts EXCEPT ![broadcast_state].stage = "await_time"],
             bc_handlers)
    /\ UNCHANGED <<storeVars, kb_shown, ga_broadcast_state, ga_lists, ga_kb_shown,
                   tasks, dispatch>>

\* adm:bc:cancel, a button of the media and of the time keyboard
CbCancel(tb) ==
    /\ kb_shown \cap {"media", "time"} # {}
    /\ broadcast_state # NoRef
    /\ BcSet(NoRef, [bc_dicts EXCEPT ![broadcast_state].cancelled = TRUE], bc_handlers)
    /\ UNCHANGED <<storeVars, kb_shown, ga_broadcast_state, ga_lists, ga_kb_shown,
                   tasks, dispatch>>

\* handle_text: state = broadcast_state.get(user.id), then the await of
\* _is_tenant_admin
TextGet(p, tb, text) ==
    /\ bc_handlers[p].pc = "idle"
    /\ HasSession(tb)
    /\ BcSet(broadcast_state, bc_dicts,
             [bc_handlers EXCEPT ![p] = [pc |-> "text_act", tb |-> tb,
                                         ref |-> broadcast_state, text |-> text]])
    /\ UNCHANGED <<storeVars, kb_shown, ga_broadcast_state, ga_lists, ga_kb_shown,
                   tasks, dispatch>>

\* handle_text after the await, on the dict it looked up
TextAct(p, now) ==
    /\ bc_handlers[p].pc = "text_act"
    /\ LET h == bc_handlers[p]
           d == bc_dicts[h.ref]
           hs == [bc_handlers EXCEPT ![p] = NoHandler]
       IN CASE d.stage = "await_text" ->
                 /\ BcSet(broadcast_state,
                          [bc_dicts EXCEPT ![h.ref].text = h.text,
                                           ![h.ref].stage = "ask_media"], hs)
                 /\ kb_shown' = kb_shown \cup {"media"}
                 /\ UNCHANGED tasks
            [] d.stage = "await_time" /\ ParsesAsTime(h.text) ->
                 /\ FreeTasks # {}
                 /\ \E k \in FreeTasks :
                      tasks' = [tasks EXCEPT ![k] =
                                  [ChildTask(h.tb, d, FALSE) EXCEPT
                                      !.delay = schedule_delay(h.text, now),
                                      !.time_text = h.text, !.at = now]]
                 /\ BcSet(NoRef, [bc_dicts EXCEPT ![h.ref].sends = @ + 1], hs)
                 /\ UNCHANGED kb_shown
            [] d.stage = "await_time" /\ ~ParsesAsTime(h.text) ->
                 /\ BcSet(broadcast_state, bc_dicts, hs)
                 /\ kb_shown' = kb_shown \cup {"time_parse_error"}
                 /\ UNCHANGED tasks
            [] OTHER ->
                 /\ BcSet(broadcast_state, bc_dicts, hs)
                 /\ UNCHANGED <<kb_shown, tasks>>
    /\ UNCHANGED <<storeVars, ga_broadcast_state, ga_lists, ga_kb_shown, dispatch>>

\* handle_media: the lookup, then the await of _is_tenant_admin
MediaGet(p, tb) ==
    /\ bc_handlers[p].pc = "idle"
    /\ HasSession(tb)
    /\ BcSet(broadcast_state, bc_dicts,
             [bc_handlers EXCEPT ![p] = [pc |-> "media_act", tb |-> tb,
                                         ref |-> broadcast_state, text |-> NoText]])
    /\ UNCHANGED <<storeVars, kb_shown, ga_broadcast_state, ga_lists, ga_kb_shown,
                   tasks, dispatch>>

\* handle_media after the await; _admin_ask_time looks the entry up again
MediaAct(p) ==
    /\ bc_handlers[p].pc = "media_act"
    /\ LET h == bc_handlers[p]
           d == bc_dicts[h.ref]
           hs == [bc_handlers EXCEPT ![p] = NoHandler]
       IN IF d.stage = "await_media"
          THEN /\ BcSet(broadcast_state,
                        [bc_dicts EXCEPT ![h.ref].media = "photo",
                                         ![h.ref].stage = "ask_time"], hs)
               /\ kb_shown' = IF broadcast_state # NoRef
                              THEN kb_shown \cup {"time"} ELSE kb_shown
          ELSE /\ BcSet(broadcast_state, bc_dicts, hs)
               /\ UNCHANGED kb_shown
    /\ UNCHANGED <<storeVars, ga_broadcast_state, ga_lists, ga_kb_shown, tasks, dispatch>>

\* bot.send_message / send_photo: Telegram refuses a message without text
\* and without media
Accepted(text, media) == text # "" \/ media # NoMedia

\* the rows of a query on user_id as a list: ascending, each id once
RECURSIVE RowList(_)
RowList(ids) ==
    IF ids = {} THEN <<>>
    ELSE LET u == CHOOSE v \in ids : \A w \in ids : v <= w
         IN <<u>> \o RowList(ids \ {u})

\* the send goes into its loop without looking at the recipient list
dispatch_begin_unchecked(d, ids) ==
    [d EXCEPT !.targets = ids, !.user_ids = RowList(ids),
              !.pc = IF ids = {} THEN "done" ELSE "sending"]

\* user_ids = await ...; if not user_ids: the 'nothing to send' message to
\* the operator and return 0, 0; else sent = 0, failed = 0 and the loop
dispatch_begin(d, ids) ==
    IF ids = {}
    THEN [d EXCEPT !.targets = ids, !.user_ids = <<>>, !.pc = "done",
                   !.notice = "broadcast_empty"]
    ELSE [d EXCEPT !.targets = ids, !.user_ids = RowList(ids), !.pc = "sending"]

\* the loop is left at the first delivery that fails
dispatch_after_attempt_aborting(d, uid, j, ok) ==
    [d EXCEPT !.attempts = Append(@, <<uid, j, ok>>),
              !.sent = IF ok THEN @ + 1 ELSE @,
              !.failed = IF ok THEN @ ELSE @ + 1,
              !.pc = IF ~ok \/ Len(d.attempts) + 1 = Len(d.user_ids) * Len(d.posts)
                     THEN "done" ELSE "sending"]

\* sent += 1, or failed += 1 in the except branch, and the next post or
\* the next recipient; return sent, failed after the last
dispatch_after_attempt(d, uid, j, ok) ==
    [d EXCEPT !.attempts = Append(@, <<uid, j, ok>>),
              !.sent = IF ok THEN @ + 1 ELSE @,
              !.failed = IF ok THEN @ ELSE @ + 1,
              !.pc = IF Len(d.attempts) + 1 = Len(d.user_ids) * Len(d.posts)
                     THEN "done" ELSE "sending"]

\* one pass of `for uid in user_ids: for post in messages:` - the send is an
\* await and may raise
DispatchSend ==
    /\ dispatch.pc = "sending"
    /\ \E fault \in SendFaults :
         LET n == Len(dispatch.attempts)
             np == Len(dispatch.posts)
             uid == dispatch.user_ids[(n \div np) + 1]
             j == (n % np) + 1
             ok == fault = "ok" /\ Accepted(dispatch.posts[j].text, dispatch.posts[j].media)
         IN dispatch' = dispatch_after_attempt(dispatch, uid, j, ok)
    /\ UNCHANGED <<storeVars, broadcast_state, bc_dicts, bc_handlers, kb_shown,
                   ga_broadcast_state, ga_lists, ga_kb_shown, tasks>>

\* _admin_do_broadcast, called at once or by _scheduled_broadcast after its
\* sleep
ChildFire(k) ==
    /\ tasks[k].who = "child"
    /\ LET tk == tasks[k]
           user_ids == admin_collect_broadcast_targets(tk.tenant_id, tk.segment,
                                                       tk.lang_code)
       IN dispatch' = dispatch_begin(
                         [NoDispatch EXCEPT
                            !.who = "child", !.tenant_id = tk.tenant_id,
                            !.segment = tk.segment, !.lang_code = tk.lang_code,
                            !.posts = <<[text |-> tk.text, media |-> tk.media]>>,
                            !.delivered = IF Accepted(tk.text, tk.media)
                                          THEN user_ids ELSE {}],
                         user_ids)
    /\ tasks' = [tasks EXCEPT ![k] = NoTask]
    /\ UNCHANGED <<storeVars, broadcast_state, bc_dicts, bc_handlers, kb_shown,
                   ga_broadcast_state, ga_lists, ga_kb_shown>>

\* ------------------------------------------------------------------------
\* Campaign dialogue of the parent bot: cb_ga_bc_*, handle_text,
\* handle_media, _ga_scheduled_broadcast_posts
\* ------------------------------------------------------------------------

GaTaskRefs(tk) == {tk[k].messages : k \in {j \in TaskIds : tk[j].who = "ga"}}

\* the assignments of a step; list objects nothing refers to are collected
GaSet(st, lists, tk) ==
    /\ ga_broadcast_state' = st
    /\ tasks' = tk
    /\ ga_lists' = [l \in ListIds |->
                      IF l = st.messages \/ l \in GaTaskRefs(tk) THEN lists[l] ELSE <<>>]

\* the object a list literal creates
FreshList ==
    CHOOSE l \in ListIds :
        /\ l \notin GaTaskRefs(tasks)
        /\ \A m \in ListIds : m \notin GaTaskRefs(tasks) => l <= m

\* the dict literal cb_ga_bc_all / cb_ga_bc_tenant stores
NewGaState(target_type, tenant_id) ==
    [target_type |-> target_type, tenant_id |-> tenant_id,
     stage |-> "collect_msgs", messages |-> FreshList]

\* ga:bc_all
GaBcAll ==
    /\ GaSet(NewGaState("all", 0), [ga_lists EXCEPT ![FreshList] = <<>>], tasks)
    /\ ga_kb_shown' = ga_kb_shown \cup {"finish"}
    /\ UNCHANGED <<storeVars, broadcast_state, bc_dicts, bc_handlers, kb_shown, dispatch>>

\* ga:bc_tenant:<id>
GaBcTenant(t) ==
    /\ GaSet(NewGaState("tenant", t), [ga_lists EXCEPT ![FreshList] = <<>>], tasks)
    /\ ga_kb_shown' = ga_kb_shown \cup {"finish"}
    /\ UNCHANGED <<storeVars, broadcast_state, bc_dicts, bc_handlers, kb_shown, dispatch>>

\* messages = state.get("messages") or []; messages.append(post);
\* state["messages"] = messages
AppendPost(st, lists, post) ==
    IF lists[st.messages] = <<>>
    THEN [lists EXCEPT ![FreshList] = <<post>>]
    ELSE [lists EXCEPT ![st.messages] = Append(@, post)]

\* the list the entry refers to after the append
AppendRef(st, lists) ==
    IF lists[st.messages] = <<>> THEN FreshList ELSE st.messages

\* the arguments _ga_do_broadcast_posts / _ga_scheduled_broadcast_posts are
\* called with: the list itself, not a copy
GaTask(st, now) ==
    [NoTask EXCEPT !.who = "ga", !.target_type = st.target_type,
                   !.tenant_id = st.tenant_id, !.messages = st.messages, !.now = now]

\* scheduling leaves the entry in place, open for further posts
ga_state_kept_collecting(st) == [st EXCEPT !.stage = "collect_msgs"]

\* ga_broadcast_state.pop(uid, None) before the task is created
ga_state_after_schedule(st) == NoGaState

\* handle_text of the parent bot in a campaign
GaText(text, now) ==
    /\ ga_broadcast_state # NoGaState
    /\ LET st == ga_broadcast_state
       IN CASE st.stage = "collect_msgs" ->
                 /\ Len(ga_lists[st.messages]) < MaxPosts
                 /\ GaSet([st EXCEPT !.messages = AppendRef(st, ga_lists)],
                          AppendPost(st, ga_lists, [text |-> text, media |-> NoMedia]),
                          tasks)
                 /\ ga_kb_shown' = ga_kb_shown \cup {"finish"}
            [] st.stage = "await_time" /\ ParsesAsTime(text) ->
                 /\ FreeTasks # {}
                 /\ \E k \in FreeTasks :
                      GaSet(ga_state_after_schedule(st), ga_lists,
                            [tasks EXCEPT ![k] =
                                [GaTask(st, FALSE) EXCEPT
                                    !.delay = schedule_delay(text, now),
                                    !.time_text = text, !.at = now]])
                 /\ UNCHANGED ga_kb_shown
            [] st.stage = "await_time" /\ ~ParsesAsTime(text) ->
                 /\ ga_kb_shown' = ga_kb_shown \cup {"time_parse_error"}
                 /\ UNCHANGED <<ga_broadcast_state, ga_lists, tasks>>
            [] OTHER ->
                 UNCHANGED <<ga_broadcast_state, ga_lists, tasks, ga_kb_shown>>
    /\ UNCHANGED <<storeVars, broadcast_state, bc_dicts, bc_handlers, kb_shown, dispatch>>

\* handle_media of the parent bot
GaMedia ==
    /\ ga_broadcast_state # NoGaState
    /\ ga_broadcast_state.stage = "collect_msgs"
    /\ Len(ga_lists[ga_broadcast_state.messages]) < MaxPosts
    /\ GaSet([ga_broadcast_state EXCEPT !.messages = AppendRef(ga_broadcast_state, ga_lists)],
             AppendPost(ga_broadcast_state, ga_lists, [text |-> "", media |-> "photo"]),
             tasks)
    /\ ga_kb_shown' = ga_kb_shown \cup {"finish"}
    /\ UNCHANGED <<storeVars, broadcast_state, bc_dicts, bc_handlers, kb_shown, dispatch>>

\* ga:bc_done_msgs
GaDone ==
    /\ "finish" \in ga_kb_shown
    /\ ga_broadcast_state # NoGaState
    /\ ga_broadcast_state.stage = "collect_msgs"
    /\ ga_lists[ga_broadcast_state.messages] # <<>>
    /\ GaSet([ga_broadcast_state EXCEPT !.stage = "ask_time"], ga_lists, tasks)
    /\ ga_kb_shown' = ga_kb_shown \cup {"time"}
    /\ UNCHANGED <<storeVars, broadcast_state, bc_dicts, bc_handlers, kb_shown, dispatch>>

\* ga:bc_time:now
GaTimeNow ==
    /\ "time" \in ga_kb_shown
    /\ ga_broadcast_state # NoGaState
    /\ ga_lists[ga_broadcast_state.messages] # <<>>
    /\ FreeTasks # {}
    /\ \E k \in FreeTasks :
         GaSet(NoGaState, ga_lists, [tasks EXCEPT ![k] = GaTask(ga_broadcast_state, TRUE)])
    /\ UNCHANGED <<storeVars, broadcast_state, bc_dicts, bc_handlers, kb_shown,
                   ga_kb_shown, dispatch>>

\* ga:bc_time:later
GaTimeLater ==
    /\ "time" \in ga_kb_shown
    /\ ga_broadcast_state # NoGaState
    /\ ga_lists[ga_broadcast_state.messages] # <<>>
    /\ GaSet([ga_broadcast_state EXCEPT !.stage = "await_time"], ga_lists, tasks)
    /\ UNCHANGED <<storeVars, broadcast_state, bc_dicts, bc_handlers, kb_shown,
                   ga_kb_shown, dispatch>>

\* ga:bc_cancel, a button of both keyboards
GaCancel ==
    /\ ga_kb_shown # {}
    /\ ga_broadcast_state # NoGaState
    /\ GaSet(NoGaState, ga_lists, tasks)
    /\ UNCHANGED <<storeVars, broadcast_state, bc_dicts, bc_handlers, kb_shown,
                   ga_kb_shown, dispatch>>

\* tenants with is_active set; a tenant row is created active
ActiveTenants == {t \in Tenants : tenants[t].exists}

\* _collect_target_user_ids
collect_target_user_ids(target_type, tenant_id) ==
    IF target_type = "all"
    THEN {u \in Users : \E t \in ActiveTenants : access[<<t, u>>].exists}
    ELSE IF target_type = "tenant" /\ tenant_id # 0
    THEN {u \in Users : access[<<tenant_id, u>>].exists}
    ELSE {}

\* _ga_do_broadcast_posts, called at once or by _ga_scheduled_broadcast_posts
\* after its sleep
GaFire(k) ==
    /\ tasks[k].who = "ga"
    /\ LET tk == tasks[k]
           posts == ga_lists[tk.messages]
           user_ids == collect_target_user_ids(tk.target_type, tk.tenant_id)
       IN dispatch' = dispatch_begin(
                         [NoDispatch EXCEPT
                            !.who = "ga", !.tenant_id = tk.tenant_id,
                            !.target_type = tk.target_type, !.posts = posts,
                            !.delivered =
                                IF \E i \in 1..Len(posts) :
                                       Accepted(posts[i].text, posts[i].media)
                                THEN user_ids ELSE {}],
                         user_ids)
    /\ GaSet(ga_broadcast_state, ga_lists, [tasks EXCEPT ![k] = NoTask])
    /\ UNCHANGED <<storeVars, broadcast_state, bc_dicts, bc_handlers, kb_shown, ga_kb_shown>>

\* ------------------------------------------------------------------------
\* Specification of the campaign dialogues
\* ------------------------------------------------------------------------

\* button presses and messages of the operators in one behaviour
MaxBcOps == 5

\* the child bot whose operator acts
BcTenant == 1

\* tenant 1 has two users, the second with or without a language; the
\* operators have run campaigns before (their keyboards are in the chats) or
\* not; no dialogue is open
InitBroadcast ==
    /\ tenants = [t \in Tenants |-> TenantRow(t, TRUE, TRUE, FALSE)]
    /\ access = [pair \in Pairs |->
                   IF pair = <<BcTenant, 1>> THEN StoredRow(TRUE, FALSE, 1)
                   ELSE IF pair = <<BcTenant, 2>> THEN StoredRow(FALSE, FALSE, 2)
                   ELSE NoRow]
    /\ \E l \in {"ru", NoLang} :
         langs = [pair \in Pairs |->
                    IF pair = <<BcTenant, 1>> THEN "en"
                    ELSE IF pair = <<BcTenant, 2>> THEN l ELSE NoLang]
    /\ events = <<>>
    /\ access_welcome_shown = {}
    /\ procs = [p \in Procs |-> Idle]
    /\ ops = 0
    /\ shown = [pair \in Pairs |-> 0]
    /\ had = [pair \in Pairs |-> [reg |-> FALSE, dep |-> FALSE]]
    /\ menu_seen = {pair \in Pairs : langs[pair] # NoLang}
    /\ broadcast_state = NoRef
    /\ bc_dicts = [d \in DictIds |-> NoDict]
    /\ bc_handlers = [p \in BcProcs |-> NoHandler]
    /\ \E before \in BOOLEAN :
         /\ kb_shown = IF before THEN {"seg", "lang", "media", "time"} ELSE {}
         /\ ga_kb_shown = IF before THEN {"finish", "time"} ELSE {}
    /\ ga_broadcast_state = NoGaState
    /\ ga_lists = [l \in ListIds |-> <<>>]
    /\ tasks = [k \in TaskIds |-> NoTask]
    /\ dispatch = NoDispatch
    /\ NoSupervisor
    /\ NoSenders

\* a new handler call takes the first free slot
FreeHandler(p) == \A q \in BcProcs : q < p => bc_handlers[q].pc # "idle"

\* an update reaches a handler
BcInput ==
    \/ CbBc(BcTenant)
    \/ CbSegLang(BcTenant)
    \/ \E seg \in {"all", "reg", "dep"} : CbSeg(BcTenant, seg)
    \/ \E code \in LANGS : CbLang(BcTenant, code)
    \/ \E choice \in {"yes", "no"} : CbMedia(BcTenant, choice)
    \/ CbTimeNow(BcTenant)
    \/ CbTimeLater(BcTenant)
    \/ CbCancel(BcTenant)
    \/ \E p \in BcProcs, text \in Texts : FreeHandler(p) /\ TextGet(p, BcTenant, text)
    \/ \E p \in BcProcs : FreeHandler(p) /\ MediaGet(p, BcTenant)
    \/ GaBcAll
    \/ \E t \in Tenants : GaBcTenant(t)
    \/ \E text \in Texts, now \in BcClock : GaText(text, now)
    \/ GaMedia
    \/ GaDone
    \/ GaTimeNow
    \/ GaTimeLater
    \/ GaCancel

\* a handler resumes after its await; a send starts
BcStep ==
    \/ \E p \in BcProcs : (\E now \in BcClock : TextAct(p, now)) \/ MediaAct(p)
    \/ \E k \in TaskIds : ChildFire(k) \/ GaFire(k)

NextBroadcast ==
    \/ ops < MaxBcOps /\ ops' = ops + 1 /\ BcInput
    \/ BcStep /\ UNCHANGED ops

SpecBroadcast == InitBroadcast /\ [][NextBroadcast]_vars

\* ------------------------------------------------------------------------
\* Specification of the schedule-time stage
\* ------------------------------------------------------------------------

\* the operator of tenant 1 and the global admin have each collected a
\* campaign and pressed "later": both dialogues wait for a time
InitSchedule ==
    /\ tenants = [t \in Tenants |-> TenantRow(t, TRUE, TRUE, FALSE)]
    /\ access = [pair \in Pairs |->
                   IF pair[1] = BcTenant THEN StoredRow(TRUE, FALSE, pair[2]) ELSE NoRow]
    /\ langs = [pair \in Pairs |-> IF pair[1] = BcTenant THEN "en" ELSE NoLang]
    /\ menu_seen = {pair \in Pairs : langs[pair] # NoLang}
    /\ events = <<>>
    /\ access_welcome_shown = {}
    /\ procs = [p \in Procs |-> Idle]
    /\ ops = 0
    /\ shown = [pair \in Pairs |-> 0]
    /\ had = [pair \in Pairs |-> [reg |-> FALSE, dep |-> FALSE]]
    /\ broadcast_state = 1
    /\ \E seg \in {"all", "dep"}, media \in {NoMedia} :
         bc_dicts = [d \in DictIds |->
                       IF d = 1
                       THEN [NewDict(BcTenant, seg, NoLang, "await_time") EXCEPT
                                !.text = "hi", !.media = media]
                       ELSE NoDict]
    /\ bc_handlers = [p \in BcProcs |-> NoHandler]
    /\ kb_shown = {"seg", "media", "time"}
    /\ \E t \in {0} \cup Tenants :
         ga_broadcast_state = [target_type |-> IF t = 0 THEN "all" ELSE "tenant",
                               tenant_id |-> t, stage |-> "await_time", messages |-> 1]
    /\ \E post \in PostKinds :
         ga_lists = [l \in ListIds |-> IF l = 1 THEN <<post>> ELSE <<>>]
    /\ ga_kb_shown = {"finish", "time"}
    /\ tasks = [k \in TaskIds |-> NoTask]
    /\ dispatch = NoDispatch
    /\ NoSupervisor
    /\ NoSenders

\* handle_text calls of the child bot past their lookup at a time in the
\* behaviours of the schedule-time stage
ScheduleProcs == {1}

\* the operators answer the time prompt, or cancel; the scheduled sends sleep
NextSchedule ==
    /\ \/ \E p \in ScheduleProcs, text \in TimeTexts : TextGet(p, BcTenant, text)
       \/ \E p \in ScheduleProcs, now \in Clock : TextAct(p, now)
       \/ \E text \in TimeTexts, now \in Clock : GaText(text, now)
       \/ CbCancel(BcTenant)
       \/ GaCancel
    /\ UNCHANGED ops

SpecSchedule == InitSchedule /\ [][NextSchedule]_vars

\* ------------------------------------------------------------------------
\* Specification of the tenants table
\* ------------------------------------------------------------------------

\* handler invocations in one behaviour of the tenants table
MaxTenantOps == 3

\* the table is empty, or owner 1 has connected a bot whose user 1 has
\* started it or not
InitTenants ==
    /\ \E owned \in BOOLEAN :
         tenants = [t \in Tenants |-> IF owned /\ t = 1
                                      THEN TenantRow(1, FALSE, FALSE, FALSE)
                                      ELSE NoTenantRow]
    /\ \E row \in {NoRow, StoredRow(FALSE, FALSE, 1)} :
         access = [pair \in Pairs |-> IF pair = <<1, 1>> /\ tenants[1].exists
                                      THEN row ELSE NoRow]
    /\ langs = [pair \in Pairs |-> IF access[pair].exists THEN "en" ELSE NoLang]
    /\ menu_seen = {pair \in Pairs : langs[pair] # NoLang}
    /\ events = <<>>
    /\ access_welcome_shown = {}
    /\ procs = [p \in Procs |-> Idle]
    /\ ops = 0
    /\ shown = [pair \in Pairs |-> 0]
    /\ had = [pair \in Pairs |-> [reg |-> FALSE, dep |-> FALSE]]
    /\ NoCampaign
    /\ NoSupervisor
    /\ NoSenders

\* owners submitting credentials, the global admin deleting tenants and the
\* conversion intake of tenant 1, interleaved at every await
NextTenants ==
    \E p \in Procs :
        \/ /\ ops < MaxTenantOps
           /\ FreeSlot(p)
           /\ \/ \E owner \in Owners, token \in Tokens : SaveStart(p, owner, token)
              \/ \E t \in Tenants : TenDelStart(p, t)
              \/ \E k \in Kinds : PbStart(p, 1, k, "1", 1)
        \/ SaveRead(p) \/ SaveCommit(p)
        \/ TenDelRead(p) \/ TenDelCommit(p)
        \/ PbTenant(p) \/ PbResolve(p) \/ PbResolveCommit(p)
        \/ PbRead(p) \/ PbCommit(p) \/ PbNotify(p)
        \/ Return(p)

SpecTenants == InitTenants /\ [][NextTenants]_vars

\* ------------------------------------------------------------------------
\* Specification of the supervisor
\* ------------------------------------------------------------------------

\* credential submissions and tenant deletions in one behaviour of the
\* supervisor
MaxSupervisorOps == 2

\* the database the runner process starts on: owner 1 has a tenant or not,
\* active or not; owner 2 has an active tenant or not
InitSupervisor ==
    /\ \E one \in {NoTenantRow, TenantRow(1, FALSE, FALSE, FALSE),
                   [TenantRow(1, FALSE, FALSE, FALSE) EXCEPT !.is_active = FALSE]},
          two \in {NoTenantRow, TenantRow(2, FALSE, FALSE, FALSE)} :
         tenants = [t \in Tenants |-> IF t = 1 THEN one ELSE two]
    /\ access = [pair \in Pairs |-> NoRow]
    /\ langs = [pair \in Pairs |-> NoLang]
    /\ menu_seen = {}
    /\ events = <<>>
    /\ access_welcome_shown = {}
    /\ procs = [p \in Procs |-> Idle]
    /\ ops = 0
    /\ shown = [pair \in Pairs |-> 0]
    /\ had = [pair \in Pairs |-> [reg |-> FALSE, dep |-> FALSE]]
    /\ NoCampaign
    /\ NoSupervisor
    /\ NoSenders

\* the parent bot handles one update at a time here
SupervisorProcs == {1}

\* the polling loop, the bot tasks, and the parent bot's handlers that
\* write the tenants table
NextSupervisor ==
    \/ TickStart \/ TickRead \/ TickRaise \/ TickApply
    \/ \E c \in ChildIds : ChildStart(c) \/ ChildCrash(c) \/ ChildStop(c)
    \/ \E p \in SupervisorProcs :
        \/ /\ ops < MaxSupervisorOps
           /\ FreeSlot(p)
           /\ \/ \E owner \in Owners, token \in Tokens : SaveStart(p, owner, token)
              \/ \E t \in Tenants : TenDelStart(p, t)
        \/ SaveRead(p) \/ SaveCommit(p)
        \/ TenDelRead(p) \/ TenDelCommit(p)
        \/ Return(p)

SpecSupervisor == InitSupervisor /\ [][NextSupervisor]_vars

\* every step of the loop and of a task that can be taken is taken in the
\* end; a select that can succeed does not fail for ever
SpecSupervisorLive ==
    /\ SpecSupervisor
    /\ WF_vars(TickStart) /\ SF_vars(TickRead) /\ WF_vars(TickApply)
    /\ \A c \in ChildIds : WF_vars(ChildStart(c)) /\ WF_vars(ChildStop(c))

\* ------------------------------------------------------------------------
\* Specification of one operator in the bots of two tenants
\* ------------------------------------------------------------------------

\* button presses and messages of the operator in one behaviour
MaxOperatorOps == 4

\* a global admin, who administers every tenant, has run campaigns in the
\* bots of both tenants before: each of the two chats holds the keyboards.
\* The runner process holds one broadcast_state for all its bots.
InitOperator ==
    /\ tenants = [t \in Tenants |-> TenantRow(t, TRUE, TRUE, FALSE)]
    /\ access = [pair \in Pairs |-> IF pair[2] = 1 THEN StoredRow(TRUE, FALSE, 1) ELSE NoRow]
    /\ langs = [pair \in Pairs |-> IF pair[2] = 1 THEN "en" ELSE NoLang]
    /\ events = <<>>
    /\ access_welcome_shown = {}
    /\ procs = [p \in Procs |-> Idle]
    /\ ops = 0
    /\ shown = [pair \in Pairs |-> 0]
    /\ had = [pair \in Pairs |-> [reg |-> FALSE, dep |-> FALSE]]
    /\ menu_seen = {pair \in Pairs : langs[pair] # NoLang}
    /\ broadcast_state = NoRef
    /\ bc_dicts = [d \in DictIds |-> NoDict]
    /\ bc_handlers = [p \in BcProcs |-> NoHandler]
    /\ kb_shown = {"seg", "lang", "media", "time"}
    /\ ga_kb_shown = {}
    /\ ga_broadcast_state = NoGaState
    /\ ga_lists = [l \in ListIds |-> <<>>]
    /\ tasks = [k \in TaskIds |-> NoTask]
    /\ dispatch = NoDispatch
    /\ NoSupervisor
    /\ NoSenders

\* an update of the operator reaches a handler of the bot of tenant tb
OperatorInput(tb) ==
    \/ CbBc(tb)
    \/ CbSegLang(tb)
    \/ \E seg \in {"all", "reg", "dep"} : CbSeg(tb, seg)
    \/ \E code \in LANGS : CbLang(tb, code)
    \/ \E choice \in {"yes", "no"} : CbMedia(tb, choice)
    \/ CbTimeNow(tb)
    \/ CbTimeLater(tb)
    \/ CbCancel(tb)
    \/ \E p \in BcProcs, text \in Texts : FreeHandler(p) /\ TextGet(p, tb, text)
    \/ \E p \in BcProcs : FreeHandler(p) /\ MediaGet(p, tb)

\* the updates of the two bots, and the handlers resuming after their await
NextOperator ==
    \/ ops < MaxOperatorOps /\ ops' = ops + 1 /\ \E tb \in Tenants : OperatorInput(tb)
    \/ /\ \E p \in BcProcs : (\E now \in BcClock : TextAct(p, now)) \/ MediaAct(p)
       /\ UNCHANGED ops

SpecOperator == InitOperator /\ [][NextOperator]_vars

\* ------------------------------------------------------------------------
\* Specification of the senders
\* ------------------------------------------------------------------------

MaxSenderOps == 4

\* the processes start with the tenants table they find: tenant 1 owned by
\* sender 1, tenant 2 owned by sender 2 or not registered; the in-memory
\* entries start empty.  Every button is pressable: callback data can be
\* sent by any user of a bot.
InitSenders ==
    /\ \E two \in BOOLEAN :
         tenants = [t \in Tenants |-> IF t = 1 \/ two THEN TenantRow(t, TRUE, TRUE, FALSE)
                                      ELSE NoTenantRow]
    /\ access = [pair \in Pairs |-> NoRow]
    /\ langs = [pair \in Pairs |-> NoLang]
    /\ menu_seen = {}
    /\ events = <<>>
    /\ access_welcome_shown = {}
    /\ procs = [p \in Procs |-> Idle]
    /\ ops = 0
    /\ shown = [pair \in Pairs |-> 0]
    /\ had = [pair \in Pairs |-> [reg |-> FALSE, dep |-> FALSE]]
    /\ NoCampaign
    /\ NoSupervisor
    /\ NoSenders

\* one more update handled, of the MaxSenderOps the specification follows
SenderStep ==
    /\ ops < MaxSenderOps
    /\ ops' = ops + 1

\* any sender sends any update to the parent bot or to a child bot
NextSenders ==
    \/ \E s \in Senders, t \in Tenants, cmd \in AdmCmds : SenderStep /\ cb_admin(s, t, cmd)
    \/ \E s \in Senders, t \in Tenants, timeok \in BOOLEAN :
         SenderStep /\ child_handle_text(s, t, timeok)
    \/ \E s \in Senders, t \in Tenants : SenderStep /\ child_handle_media(s, t)
    \/ \E s \in Senders, t \in Tenants : SenderStep /\ cb_ga_tenantdel(s, t)
    \/ \E s \in Senders, target \in {0} \cup Tenants : SenderStep /\ cb_ga_bc_start(s, target)
    \/ \E s \in Senders : SenderStep /\ cb_ga_bc_done_msgs(s)
    \/ \E s \in Senders, choice \in {"now", "later"} : SenderStep /\ cb_ga_bc_time(s, choice)
    \/ \E s \in Senders : SenderStep /\ cb_ga_bc_cancel(s)
    \/ \E s \in Senders, kind \in {"text", "time", "token"} :
         SenderStep /\ parent_handle_text(s, kind, "b")
    \/ \E s \in Senders : SenderStep /\ parent_handle_media(s)

SpecSenders == InitSenders /\ [][NextSenders]_vars

\* ------------------------------------------------------------------------
\* Specification of a campaign send
\* ------------------------------------------------------------------------

\* the rows a user can have: under tenant 1 with the default click_id, under
\* tenant 2 with the click_id a conversion notice brought
DispatchRows(pair) ==
    {NoRow} \cup {[StoredRow(r, FALSE, pair[2]) EXCEPT
                      !.click_id = IF pair[1] = 1 THEN @ ELSE "0" \o @] : r \in BOOLEAN}

\* the campaigns that wait for their send: of the global admin, to everyone
\* or to one tenant, with one post or several; of the operator of tenant 1,
\* to a segment, with a text, a photo, both or neither
DispatchTasks ==
    {[NoTask EXCEPT !.who = "ga", !.target_type = tt, !.tenant_id = t,
                    !.messages = 1, !.now = TRUE] :
        tt \in {"all", "tenant"}, t \in {0} \cup Tenants}
    \cup
    {[NoTask EXCEPT !.who = "child", !.tenant_id = BcTenant, !.segment = seg,
                    !.lang_code = code, !.text = text, !.media = media, !.now = TRUE] :
        seg \in {"all", "reg", "lang"}, code \in {NoLang, "en"},
        text \in {"", "hi"}, media \in {NoMedia, "photo"}}

\* the users have rows under one tenant, under both or under none; a send
\* was requested and has not started
InitDispatch ==
    /\ tenants = [t \in Tenants |-> TenantRow(t, TRUE, TRUE, FALSE)]
    /\ access \in [Pairs -> UNION {DispatchRows(pair) : pair \in Pairs}]
    /\ \A pair \in Pairs : access[pair] \in DispatchRows(pair)
    /\ langs = [pair \in Pairs |->
                  IF ~access[pair].exists THEN NoLang
                  ELSE IF pair[2] = 1 THEN "en" ELSE "ru"]
    /\ menu_seen = {pair \in Pairs : langs[pair] # NoLang}
    /\ events = <<>>
    /\ access_welcome_shown = {}
    /\ procs = [p \in Procs |-> Idle]
    /\ ops = 0
    /\ shown = [pair \in Pairs |-> 0]
    /\ had = [pair \in Pairs |-> [reg |-> FALSE, dep |-> FALSE]]
    /\ broadcast_state = NoRef
    /\ bc_dicts = [d \in DictIds |-> NoDict]
    /\ bc_handlers = [p \in BcProcs |-> NoHandler]
    /\ kb_shown = {"seg", "lang", "media", "time"}
    /\ ga_broadcast_state = NoGaState
    /\ ga_kb_shown = {"finish", "time"}
    /\ \E tk \in DispatchTasks :
         /\ tasks = [k \in TaskIds |-> IF k = 1 THEN tk ELSE NoTask]
         /\ \/ /\ tk.who = "child"
               /\ (tk.segment # "lang" => tk.lang_code = NoLang)
               /\ ga_lists = [l \in ListIds |-> <<>>]
            \/ /\ tk.who = "ga"
               /\ (tk.target_type = "all" <=> tk.tenant_id = 0)
               /\ \E n \in 1..MaxPosts : \E posts \in [1..n -> PostKinds] :
                    ga_lists = [l \in ListIds |-> IF l = 1 THEN posts ELSE <<>>]
    /\ dispatch = NoDispatch
    /\ NoSupervisor
    /\ NoSenders

\* the send starts, the loop runs
NextDispatch ==
    /\ \/ \E k \in TaskIds : ChildFire(k) \/ GaFire(k)
       \/ DispatchSend
    /\ UNCHANGED ops

SpecDispatch == InitDispatch /\ [][NextDispatch]_vars

\* ------------------------------------------------------------------------
\* Properties of the access ledger
\* ------------------------------------------------------------------------

GocDone(p) == procs[p].op = "goc" /\ procs[p].pc = "done"

\* C1: every get_or_create call, however it interleaves with the others,
\* leaves the row of its (tenant, user) pair in the table, with the
\* stringified user id as click_id.  (One row at most per pair is the
\* UNIQUE(tenant_id, user_id) constraint.)
C1_GetOrCreateLeavesOneRow ==
    \A p \in Procs :
        GocDone(p) =>
            /\ access[<<procs[p].t, procs[p].u>>].exists
            /\ access[<<procs[p].t, procs[p].u>>].click_id = Str(procs[p].u)

EffDone(p) == procs[p].op = "eff" /\ procs[p].pc = "done" /\ procs[p].status = "ok"

\* C2: effective_access returns (stored is_registered OR a reg Event exists,
\* stored has_deposit OR an ftd/rd Event exists) for the flags stored when it
\* was called and the Event rows of the pair.
C2_EffectiveAccessIsFlagOrEvent ==
    \A p \in Procs :
        EffDone(p) =>
            /\ procs[p].rreg = (procs[p].pre_reg \/ EventsOf(procs[p].t, procs[p].u, {"reg"}) # {})
            /\ procs[p].rdep = (procs[p].pre_dep
                                \/ EventsOf(procs[p].t, procs[p].u, {"ftd", "rd"}) # {})

\* a call that found the deposit flag unset and a repeat-deposit Event only
C2_Witness ==
    \E p \in Procs :
        /\ EffDone(p)
        /\ ~procs[p].pre_dep
        /\ EventsOf(procs[p].t, procs[p].u, {"rd"}) # {}
        /\ EventsOf(procs[p].t, procs[p].u, {"ftd"}) = {}
        /\ procs[p].rdep

\* C3: once a reg (deposit) Event has existed for a pair, every later
\* effective_access call returns registered (deposited) = true and leaves the
\* stored flag true, whatever operations came in between.
C3_EffectiveAccessMonotone ==
    \A p \in Procs :
        EffDone(p) =>
            LET pair == <<procs[p].t, procs[p].u>>
            IN /\ had[pair].reg => (procs[p].rreg /\ access[pair].is_registered)
               /\ had[pair].dep => (procs[p].rdep /\ access[pair].has_deposit)

\* ------------------------------------------------------------------------
\* Properties of the funnel
\* ------------------------------------------------------------------------

AdvDone(p) == procs[p].op = "adv" /\ procs[p].pc = "done"

\* C4: an advance presents at most one screen, one of subscribe, register,
\* deposit, access-granted, or nothing; the deposit screen only when the
\* effective access it computed says registered; the registration screen
\* only when subscription checking is off or the user passed the check.
C4_FunnelOrder ==
    \A p \in Procs :
        AdvDone(p) =>
            /\ procs[p].out \in {<<>>, <<"subscribe">>, <<"register">>,
                                 <<"deposit">>, <<"access">>}
            /\ procs[p].out = <<"deposit">> => procs[p].rreg
            /\ procs[p].out = <<"register">> => (~procs[p].csub \/ procs[p].subok)

\* a registered user without deposit, member of the gate channel of a tenant
\* that checks subscription and deposit, is shown the deposit screen
C4_Witness ==
    \E p \in Procs :
        /\ AdvDone(p)
        /\ procs[p].csub /\ procs[p].cchan /\ procs[p].lookup = "member"
        /\ procs[p].cdep /\ procs[p].rreg /\ ~procs[p].rdep
        /\ procs[p].out = <<"deposit">>

\* C5: between two discards of a pair's marker (operator deletions of the
\* user's record) the interactive path presents the access-granted screen to
\* the pair at most once, however the advances of the user interleave, and an
\* advance that finds the pair marked at its last step presents no
\* access-granted screen: it sends nothing.
C5_AccessScreenOnce ==
    /\ \A pair \in Pairs : shown[pair] <= 1
    /\ \A p \in Procs :
         (AdvDone(p) /\ procs[p].marked) =>
             /\ procs[p].out # <<"access">>
             /\ (procs[p].rreg /\ (procs[p].cdep => procs[p].rdep)
                   /\ (procs[p].csub => procs[p].subok)) => procs[p].out = <<>>

\* two advances of one user with full access: one presented the screen, the
\* other found the marker and sent nothing
C5_Witness ==
    \E p, q \in Procs :
        /\ p # q
        /\ AdvDone(p) /\ AdvDone(q)
        /\ procs[p].t = procs[q].t /\ procs[p].u = procs[q].u
        /\ procs[p].out = <<"access">> /\ ~procs[p].marked
        /\ procs[q].out = <<>> /\ procs[q].marked

\* C10 as stated: an advance that finds no stored language presents the
\* language picker and no funnel screen.
C10_AdvancePresentsLanguagePicker ==
    \A p \in Procs :
        (AdvDone(p) /\ procs[p].slang = NoLang) => procs[p].out = <<"lang">>

\* C10 amended: the language picker belongs to the start command.  When
\* cmd_start reads no stored language it presents the language picker and
\* nothing else; an advance never presents the picker and runs in the
\* default language when none is stored.
C10_StartPresentsLanguagePicker ==
    \A p \in Procs :
        /\ ( /\ procs[p].op = "start" /\ procs[p].pc = "done"
             /\ procs[p].status = "ok" /\ procs[p].slang = NoLang )
           => procs[p].out = <<"lang">>
        /\ AdvDone(p) =>
             /\ procs[p].out # <<"lang">>
             /\ procs[p].slang = NoLang => procs[p].lang = lang_default

\* a start command of a user without stored language ended at the picker
C10_Witness ==
    \E p \in Procs :
        /\ procs[p].op = "start" /\ procs[p].pc = "done" /\ procs[p].status = "ok"
        /\ procs[p].slang = NoLang
        /\ procs[p].out = <<"lang">>

\* C11: when subscription is checked and the membership lookup against the
\* gate channel fails, the user is treated as subscribed: the advance does
\* not present the subscribe screen.
C11_LookupFailureAllows ==
    \A p \in Procs :
        (AdvDone(p) /\ procs[p].csub /\ procs[p].lookup = "error")
            => procs[p].out # <<"subscribe">>

\* a main menu was sent
MenuDone(p) ==
    /\ procs[p].op \in {"start", "lang"}
    /\ procs[p].pc = "done"
    /\ procs[p].out = <<"menu">>

\* the last step of an advance is reached with the tenant row and the
\* effective access the handler p read, the membership lookup giving lookup
ReachesLastStep(p, lookup) ==
    /\ procs[p].csub => check_subscription(procs[p].cchan, lookup)
    /\ procs[p].rreg
    /\ procs[p].cdep => procs[p].rdep

\* C12: the main menu carries the direct-launch control exactly when an
\* advance would now reach its last step (subscription satisfied when
\* checked, registered, deposited when checked), whatever the membership of
\* the user is.
C12_MenuMatchesAdvance ==
    \A p \in Procs :
        MenuDone(p) =>
            \A lookup \in {"member", "left", "error"} :
                procs[p].full <=> ReachesLastStep(p, lookup)

\* C6: a conversion notice for a known tenant whose click_id is not numeric
\* and matches no stored click_id appends exactly one Event row and changes
\* no UserAccess row.
C6_UnresolvedNoticeAppendsOneEvent ==
    \A p \in Procs :
        ( /\ procs[p].op = "pb"
          /\ procs[p].pc = "done"
          /\ tenants[procs[p].t].exists
          /\ ToInt(procs[p].click) = 0
          /\ \A q \in Pairs : ~(procs[p].pre_acc[q].exists
                                /\ procs[p].pre_acc[q].click_id = procs[p].click) )
        => /\ Len(events) = procs[p].pre_ev + 1
           /\ access = procs[p].pre_acc

\* the users of tenant t whose effective flag of the kinds is true
EffectiveUsers(t, f, kinds) ==
    {u \in Users : /\ access[<<t, u>>].exists
                   /\ (access[<<t, u>>][f] \/ EventsOf(t, u, kinds) # {})}

\* C7: the registered-only (deposited-only) segment of a tenant is the set of
\* its users whose effective registered (deposited) value is true.
C7_SegmentsAreEffective ==
    \A t \in Tenants :
        /\ admin_collect_broadcast_targets(t, "reg", NoLang)
             = EffectiveUsers(t, "is_registered", {"reg"})
        /\ admin_collect_broadcast_targets(t, "dep", NoLang)
             = EffectiveUsers(t, "has_deposit", {"ftd", "rd"})

\* ------------------------------------------------------------------------
\* Properties of the intake
\* ------------------------------------------------------------------------

\* the handler of a conversion notice is over
PbDone(p) == procs[p].op = "pb" /\ procs[p].pc = "done"

\* C13: the push after a registration conversion is the deposit screen when
\* the tenant's check_deposit is true and the access-granted screen when it
\* is false.
C13_RegistrationPushFollowsCheckDeposit ==
    \A p \in Procs :
        (PbDone(p) /\ procs[p].kind = "reg" /\ procs[p].sent = "sent")
            => procs[p].out = <<IF procs[p].cdep THEN "deposit" ELSE "access">>

\* C14: the commit of a resolved conversion leaves the stored flag of its
\* kind true (is_registered after reg, has_deposit after ftd and after rd)
\* and, for the deposit kinds, total_deposits larger by the amount.
C14_ConversionSetsFlag ==
    \A p \in Procs :
        (procs[p].op = "pb" /\ procs[p].pc = "pb_notify" /\ procs[p].found) =>
            LET ua == access[<<procs[p].t, procs[p].u>>]
            IN /\ procs[p].kind = "reg" => ua.is_registered
               /\ procs[p].kind \in {"ftd", "rd"} =>
                    /\ ua.has_deposit
                    /\ ua.total_deposits = procs[p].stot + procs[p].amt

\* the sum of the amounts of the Event rows with index in idx
RECURSIVE SumAmounts(_)
SumAmounts(idx) ==
    IF idx = {} THEN 0
    ELSE LET i == CHOOSE j \in idx : TRUE
         IN events[i].amount + SumAmounts(idx \ {i})

\* C15: when no deposit conversion of a pair is between its read and its
\* commit, the stored total_deposits of the pair's row is the sum of the
\* amounts of the pair's deposit Events, however the conversions interleaved.
C15_TotalIsSumOfDeposits ==
    \A pair \in Pairs :
        ( /\ access[pair].exists
          /\ \A p \in Procs : procs[p].op = "pb" => procs[p].pc = "done" )
        => access[pair].total_deposits = SumAmounts(EventsOf(pair[1], pair[2], {"ftd", "rd"}))

\* C16: after a first-deposit conversion has pushed the access-granted
\* screen to a user, the pair is in the welcome-shown marker set.
C16_PushMarksWelcomeShown ==
    \A p \in Procs :
        (PbDone(p) /\ procs[p].kind = "ftd" /\ procs[p].out = <<"access">>)
            => <<procs[p].t, procs[p].u>> \in access_welcome_shown

\* C17: an intake call whose ledger write committed returns status ok,
\* whatever failure the notification send raised.
C17_SendFailureNeverFailsIntake ==
    \A p \in Procs :
        (PbDone(p) /\ procs[p].sent # "") => procs[p].status = "ok"

\* the Event row the handler p adds to its session
PbEvent(p) ==
    Event(procs[p].t, procs[p].u, procs[p].click, procs[p].kind, procs[p].amt)

\* C18: the commit of an intake call writes the flag it updates and the
\* Event in one step, and only after it the notification is attempted; a
\* commit that fails returns the error status, leaves the row and the Event
\* table as they were, and no notification is attempted.
C18_CommitBeforeNotification ==
    [][\A p \in Procs :
          procs[p].op = "pb" =>
              LET pair == <<procs[p].t, procs[p].u>>
              IN /\ (procs[p].pc = "pb_commit" /\ procs'[p].pc = "pb_notify") =>
                      /\ events' = Append(events, PbEvent(p))
                      /\ (procs[p].kind = "reg" /\ procs[p].found /\ ~procs[p].lreg)
                            => access'[pair].is_registered
                      /\ (procs[p].kind = "ftd" /\ procs[p].found /\ ~procs[p].ldep)
                            => access'[pair].has_deposit
                 /\ (procs[p].pc = "pb_commit"
                       /\ procs'[p].pc \notin {"pb_commit", "pb_notify"}) =>
                      /\ procs'[p].pc = "done"
                      /\ procs'[p].status = "error"
                      /\ procs'[p].sent = ""
                      /\ access' = access
                      /\ events' = events
                 /\ (procs[p].sent = "" /\ procs'[p].sent # "") =>
                      procs[p].pc = "pb_notify"]_vars

\* the operator deleted the user between the handler's select and its
\* commit: the commit failed, the call returned the error status
C18_Witness ==
    \E p \in Procs :
        /\ PbDone(p)
        /\ procs[p].found
        /\ procs[p].status = "error"
        /\ procs[p].sent = ""
        /\ \A i \in 1..Len(events) : events[i] # PbEvent(p)

\* ------------------------------------------------------------------------
\* Properties of the campaigns
\* ------------------------------------------------------------------------

\* the users of tenant t whose stored language is the code
LanguageUsers(t, code) ==
    {u \in Users : /\ access[<<t, u>>].exists
                   /\ langs[<<t, u>>] # NoLang
                   /\ langs[<<t, u>>] = code}

\* C8: every campaign of a child bot sent for the 'by language' segment
\* reaches exactly the users of the tenant whose stored language is the
\* requested code, also when the session had no code chosen yet.  (A
\* campaign without text and without media is refused by the transport and
\* reaches nobody: it is left aside.)
C8_LanguageSegmentExact ==
    ( /\ dispatch.who = "child"
      /\ dispatch.segment = "lang"
      /\ Accepted(dispatch.posts[1].text, dispatch.posts[1].media) )
    => dispatch.delivered = LanguageUsers(dispatch.tenant_id, dispatch.lang_code)

\* what a pending send will send, and to which segment
TaskSends(k) ==
    [who |-> tasks[k].who, tenant_id |-> tasks[k].tenant_id,
     segment |-> tasks[k].segment, lang_code |-> tasks[k].lang_code,
     target_type |-> tasks[k].target_type,
     posts |-> IF tasks[k].who = "ga"
               THEN ga_lists[tasks[k].messages]
               ELSE <<[text |-> tasks[k].text, media |-> tasks[k].media]>>]

\* C9: no step of a dialogue (a new campaign, a further post, a cancel, a
\* second schedule) changes the posts or the segment of a campaign that is
\* scheduled and has not been sent yet.
C9_ScheduledCampaignDetached ==
    [][\A k \in TaskIds :
          (tasks[k] # NoTask /\ tasks'[k] # NoTask) => TaskSends(k)' = TaskSends(k)]_vars

\* the global admin has opened a new campaign while a scheduled one waits
C9_Witness ==
    \E k \in TaskIds :
        /\ tasks[k].who = "ga"
        /\ ~tasks[k].now
        /\ ga_lists[tasks[k].messages] # <<>>
        /\ ga_broadcast_state # NoGaState
        /\ ga_broadcast_state.stage = "collect_msgs"

\* C19: a campaign send attempts, recipient by recipient in the order of
\* the resolved list, every post in list order; a failed delivery is counted
\* and the loop goes on; no recipient is in the list twice, and on return
\* sent + failed is the number of recipients times the number of posts.
C19_DispatchAttemptsEveryPost ==
    LET np == Len(dispatch.posts)
        ids == dispatch.user_ids
    IN /\ dispatch.sent + dispatch.failed = Len(dispatch.attempts)
       /\ \A n \in 1..Len(dispatch.attempts) :
            /\ dispatch.attempts[n][1] = ids[((n - 1) \div np) + 1]
            /\ dispatch.attempts[n][2] = ((n - 1) % np) + 1
       /\ \A i, j \in 1..Len(ids) : i # j => ids[i] # ids[j]
       /\ {ids[i] : i \in 1..Len(ids)} = dispatch.targets
       /\ dispatch.pc = "done" =>
            /\ Len(dispatch.attempts) = Cardinality(dispatch.targets) * np
            /\ dispatch.sent + dispatch.failed = Cardinality(dispatch.targets) * np

\* a campaign of two posts to everyone, one user having rows under both
\* tenants: the first delivery failed, the three after it were attempted
C19_Witness ==
    /\ dispatch.who = "ga"
    /\ dispatch.target_type = "all"
    /\ dispatch.pc = "done"
    /\ access[<<1, 1>>].exists /\ access[<<2, 1>>].exists
    /\ Cardinality(dispatch.targets) = 2
    /\ Len(dispatch.posts) = 2
    /\ ~dispatch.attempts[1][3]
    /\ dispatch.sent = 3 /\ dispatch.failed = 1

\* C20: a send whose segment resolves to no recipient attempts no delivery,
\* tells the operator that there is nobody to send to, and returns (0, 0).
C20_EmptySegmentSendsNothing ==
    (dispatch.pc # "" /\ dispatch.targets = {}) =>
        /\ dispatch.pc = "done"
        /\ dispatch.attempts = <<>>
        /\ dispatch.notice = "broadcast_empty"
        /\ dispatch.sent = 0 /\ dispatch.failed = 0

\* the tenant has users, none of them registered: the 'reg' segment is empty
C20_Witness ==
    /\ dispatch.who = "child"
    /\ dispatch.segment = "reg"
    /\ \E u \in Users : access[<<dispatch.tenant_id, u>>].exists
    /\ dispatch.targets = {}
    /\ dispatch.pc = "done"
    /\ dispatch.notice = "broadcast_empty"

\* the hour and the minute a text names: the integers around its one colon
HourMinute(text) ==
    CASE text = "15:30" -> <<15, 30>>
      [] text = "00:00" -> <<0, 0>>
      [] text = "23:59" -> <<23, 59>>
      [] text = "9:5" -> <<9, 5>>
      [] text = "+7:05" -> <<7, 5>>
      [] text = "24:00" -> <<24, 0>>
      [] text = "15:60" -> <<15, 60>>
      [] text = "-1:30" -> <<0 - 1, 30>>
      [] OTHER -> <<>>

\* not an hour and a minute, or the hour outside 0..23, or the minute
\* outside 0..59
Malformed(text) ==
    \/ HourMinute(text) = <<>>
    \/ HourMinute(text)[1] \notin 0..23
    \/ HourMinute(text)[2] \notin 0..59

\* C21: a text of the schedule-time stage that is not a time of day (no
\* hour and minute around a colon, hour outside 0..23, minute outside
\* 0..59) is answered with the re-prompt, creates no task, and leaves the
\* dialogue entry and its stage, segment and posts as they were.
C21_MalformedTimeKeepsSession ==
    [][/\ \A p \in BcProcs :
            (/\ bc_handlers[p].pc = "text_act"
             /\ bc_handlers'[p].pc = "idle"
             /\ bc_dicts[bc_handlers[p].ref].stage = "await_time"
             /\ Malformed(bc_handlers[p].text))
            => /\ "time_parse_error" \in kb_shown'
               /\ tasks' = tasks
               /\ broadcast_state' = broadcast_state
               /\ broadcast_state # NoRef
                    => bc_dicts'[broadcast_state] = bc_dicts[broadcast_state]
       /\ \/ /\ "time_parse_error" \in ga_kb_shown'
             /\ tasks' = tasks
             /\ ga_broadcast_state' = ga_broadcast_state
             /\ ga_lists' = ga_lists
          \/ ~ \E text \in TimeTexts, now \in Clock :
                 /\ ga_broadcast_state.stage = "await_time"
                 /\ bc_handlers' = bc_handlers
                 /\ Malformed(text)
                 /\ GaText(text, now)]_vars

\* both operators were re-prompted and both dialogues still wait for a time
C21_Witness ==
    /\ "time_parse_error" \in kb_shown
    /\ "time_parse_error" \in ga_kb_shown
    /\ broadcast_state # NoRef
    /\ bc_dicts[broadcast_state].stage = "await_time"
    /\ bc_dicts[broadcast_state].text = "hi"
    /\ ga_broadcast_state.stage = "await_time"
    /\ ga_lists[ga_broadcast_state.messages] # <<>>
    /\ \A k \in TaskIds : tasks[k] = NoTask
    /\ \A p \in BcProcs : bc_handlers[p].pc = "idle"

\* seconds from midnight to the time a text names
SecondsOf(text) == HourMinute(text)[1] * 3600 + HourMinute(text)[2] * 60

\* C22: the delay of a scheduled send runs to the same day's HH:MM when that
\* is strictly after the current time and to the next day's HH:MM otherwise;
\* it is greater than 0 and at most 24 hours.
C22_DelayToNextOccurrence ==
    \A k \in TaskIds :
        (tasks[k] # NoTask /\ ~tasks[k].now)
        => LET tk == tasks[k]
               target == SecondsOf(tk.time_text)
           IN /\ ~Malformed(tk.time_text)
              /\ tk.delay = IF target > tk.at THEN target - tk.at
                            ELSE target + DaySeconds - tk.at
              /\ tk.delay > 0
              /\ tk.delay <= DaySeconds

\* a send was scheduled for 15:30 at 15:30:00 sharp: a full day ahead
C22_Witness ==
    \E k \in TaskIds :
        /\ tasks[k].who = "ga"
        /\ ~tasks[k].now
        /\ tasks[k].time_text = "15:30"
        /\ tasks[k].at = 55800
        /\ tasks[k].delay = DaySeconds

\* C23: the step that schedules a campaign of the global admin leaves the
\* admin's dialogue entry in the post-collecting stage, so that the next
\* text or media message is taken as a post of a new campaign while the
\* scheduled send is pending.
C23_ScheduleReturnsToCollecting ==
    [][(\E k \in TaskIds : /\ tasks[k] = NoTask
                           /\ tasks'[k].who = "ga"
                           /\ ~tasks'[k].now)
       => /\ ga_broadcast_state' # NoGaState
          /\ ga_broadcast_state'.stage = "collect_msgs"]_vars

\* C24: a cancel leaves the operator without a dialogue entry, and no
\* handler that resumes afterwards creates a send, at once or scheduled,
\* from the entry the cancel removed.
C24_CancelDiscardsSession ==
    [][/\ (\E d \in DictIds : ~bc_dicts[d].cancelled /\ bc_dicts'[d].cancelled)
            => broadcast_state' = NoRef
       /\ \A p \in BcProcs :
            (/\ bc_handlers[p].pc # "idle"
             /\ bc_handlers'[p].pc = "idle"
             /\ bc_dicts[bc_handlers[p].ref].cancelled)
            => tasks' = tasks]_vars

\* C25: a get_or_create call never ends with the uniqueness conflict raised
\* to its caller: it returns the row of the requested (tenant, user), also
\* when the user has a row under another tenant.
C25_GetOrCreateNeverRaises ==
    \A p \in Procs :
        GocDone(p) => procs[p].status = "ok" /\ procs[p].found

\* C26: an intake call that found no row for its numeric click_id and
\* creates one ends with a structured status, also when another call
\* creates the row of the same (tenant, user) first.
C26_LazyCreationRaceIsHandled ==
    \A p \in Procs :
        (/\ procs[p].op = "pb"
         /\ procs[p].pc = "done"
         /\ procs[p].flag = "insert"
         /\ procs[p].sent = "")
        => procs[p].status \in {"ok", "error", "notfound"}

\* C27: the write of the reconciliation in effective_access never turns a
\* stored flag of its (tenant, user) from true to false, whatever commits
\* between its reads and its write.
C27_ReconciliationOnlyRaisesFlags ==
    [][\A p \in Procs :
         (procs[p].pc = "rec_commit" /\ procs'[p].pc # "rec_commit")
         => LET pair == <<procs[p].t, procs[p].u>>
            IN /\ access[pair].is_registered => access'[pair].is_registered
               /\ access[pair].has_deposit => access'[pair].has_deposit]_vars

\* C28: the Event rows of the tenants a step does not delete are, after the
\* step, the rows before it with new rows appended at most: no step but a
\* tenant's deletion removes or changes an Event.
C28_EventLogAppendOnly ==
    [][LET gone == {t \in Tenants : tenants[t].exists /\ ~tenants'[t].exists}
           kept(e) == e.tenant_id \notin gone
           before == SelectSeq(events, kept)
           after == SelectSeq(events', kept)
       IN /\ Len(after) >= Len(before)
          /\ SubSeq(after, 1, Len(before)) = before]_vars

\* C29: at most one Tenant row exists per owner, also when the owner's
\* first submissions run concurrently
C29_OneTenantPerOwner ==
    \A owner \in Owners :
        Cardinality({t \in Tenants : tenants[t].exists /\ tenants[t].owner = owner}) <= 1

\* C30: once a tenant has been deleted no UserAccess, UserLang or Event row
\* refers to it in any later state, also when a conversion intake call for
\* the tenant was in flight during the deletion; and a deletion that found
\* no tenant reports so
C30_TenantDeletionLeavesNoRows ==
    /\ \A t \in Tenants :
         ~tenants[t].exists =>
            /\ \A u \in Users : ~access[<<t, u>>].exists /\ langs[<<t, u>>] = NoLang
            /\ \A i \in 1..Len(events) : events[i].tenant_id # t
    /\ \A p \in Procs :
         (procs[p].op = "tdelete" /\ procs[p].pc = "done")
            => (procs[p].status = "notfound") = ~procs[p].found

\* C31: a tick that completes leaves a managed task for exactly the tenants
\* that were active with a credential in the rows it read: a new task for
\* each of them that had none or a terminated one, the kept task otherwise,
\* and the task of every other tenant cancelled and forgotten; a tick that
\* raises leaves the tasks alone and the loop goes on to sleep
C31_TickSynchronisesTasks ==
    [][/\ (runner.pc = "apply" /\ runner'.pc = "sleep") =>
            LET rows == runner.rows
                wanted == {t \in Tenants : /\ rows[t].exists
                                           /\ rows[t].is_active
                                           /\ rows[t].bot_token # ""}
            IN /\ {t \in Tenants : manager_tasks'[t] # 0} = wanted
               /\ \A t \in wanted :
                    IF manager_tasks[t] = 0 \/ child_bots[manager_tasks[t]].state = "done"
                    THEN child_bots'[manager_tasks'[t]] = NewChild(t, rows[t].bot_token)
                    ELSE /\ manager_tasks'[t] = manager_tasks[t]
                         /\ child_bots'[manager_tasks[t]] = child_bots[manager_tasks[t]]
               /\ \A t \in Tenants \ wanted :
                    manager_tasks[t] # 0 =>
                        /\ child_bots'[manager_tasks[t]].state \in {"cancelling", "none"}
                        /\ \A s \in Tenants : manager_tasks'[s] # manager_tasks[t]
               /\ \A t, s \in wanted : t # s => manager_tasks'[t] # manager_tasks'[s]
       /\ (runner.pc = "read" /\ runner'.pc = "sleep") =>
            /\ runner'.raised
            /\ manager_tasks' = manager_tasks
            /\ child_bots' = child_bots]_vars

\* a tick has cancelled the task of one tenant and keeps the task of another
C31_Witness ==
    /\ runner.pc = "sleep"
    /\ \E c \in ChildIds : child_bots[c].state = "cancelling"
    /\ \E t \in Tenants : manager_tasks[t] # 0 /\ child_bots[manager_tasks[t]].state = "polling"

\* C34: at every moment at most one bot task of a tenant has not terminated
C34_OneLiveTaskPerTenant ==
    \A t \in Tenants :
        Cardinality({c \in ChildIds : /\ child_bots[c].tenant_id = t
                                      /\ child_bots[c].state \in {"starting", "polling", "cancelling"}}) <= 1

\* C39: a managed task that runs on a credential the tenant no longer has is
\* replaced in the end by one that runs on the tenant's credential
C39_NewCredentialIsPickedUp ==
    \A t \in Tenants :
        [](/\ tenants[t].exists
           /\ manager_tasks[t] # 0
           /\ child_bots[manager_tasks[t]].bot_token # tenants[t].bot_token
           => <>(\/ ~tenants[t].exists
                 \/ manager_tasks[t] = 0
                 \/ child_bots[manager_tasks[t]].bot_token = tenants[t].bot_token))

\* a step taken by a handler of the bot of tenant tb
ByBot(tb) ==
    \/ OperatorInput(tb)
    \/ \E p \in BcProcs :
         /\ bc_handlers[p].tb = tb
         /\ (\E now \in BcClock : TextAct(p, now)) \/ MediaAct(p)

\* C32: a step of the bot of one tenant neither removes, replaces nor
\* changes the operator's pending campaign entry of another tenant
C32_EntriesStayWithTheirTenant ==
    [][\/ broadcast_state = NoRef
       \/ /\ broadcast_state' = broadcast_state
          /\ bc_dicts'[broadcast_state] = bc_dicts[broadcast_state]
       \/ ~\E tb \in Tenants \ {bc_dicts[broadcast_state].tenant_id} : ByBot(tb)]_vars

\* C33: the global admin's send-now / schedule choice is taken only in the
\* time-choice stage; pressed in another stage it changes nothing
C33_TimeChoiceOnlyInItsStage ==
    [][\/ ga_broadcast_state.stage = "ask_time"
       \/ ~(GaTimeNow \/ GaTimeLater)]_vars

\* C35: from one session dict of a child bot at most one campaign is sent
\* or scheduled
C35_OneCampaignPerSession ==
    \A d \in DictIds : bc_dicts[d].sends <= 1

\* C36: a child bot takes the send-now / schedule-later choice only for a
\* session whose text has been collected
C36_TimeChoiceNeedsText ==
    [][\/ broadcast_state = NoRef
       \/ bc_dicts[broadcast_state].text # NoText
       \/ ~(CbTimeNow(BcTenant) \/ CbTimeLater(BcTenant))]_vars

\* C37: the conversion push sends the access-granted screen only to a user
\* who is registered at that moment by the stored flag or a reg Event
C37_AccessScreenNeedsRegistration ==
    [][\A p \in Procs :
         (/\ procs[p].pc = "pb_notify"
          /\ procs'[p].pc = "done"
          /\ procs'[p].out = <<"access">>)
         => LET pair == <<procs[p].t, procs[p].u>>
            IN \/ access[pair].is_registered
               \/ EventsOf(pair[1], pair[2], {"reg"}) # {}]_vars

\* C38: every campaign dispatched or scheduled, every flag toggle, user or
\* tenant deletion and parameter or link change was requested by a global
\* admin or, in a child bot, by the owner of the tenant it acts on
C38_PrivilegedOperationsNeedAdmin ==
    last_effect # NoEffect =>
        \/ last_effect.sender \in GaAdminIds
        \/ /\ last_effect.kind \in {"campaign", "toggle", "delete_user", "param", "link"}
           /\ last_effect.owner = last_effect.sender

\* an owner has scheduled a campaign in the bot of a tenant they own, while
\* the other owner holds markers for that tenant's bot
C38_Witness ==
    /\ last_effect.kind = "campaign"
    /\ last_effect.sender \notin GaAdminIds
    /\ \E s \in Senders \ GaAdminIds :
         /\ s # last_effect.sender
         /\ tenants[last_effect.tenant_id].exists
         /\ tenants[last_effect.tenant_id].owner # s
         /\ entries[s].bc # NoBc

====
